---- MODULE Spec2Model ----
(***************************************************************************)
(* A model of pylox, a tree-walking interpreter for Lox written in Python. *)
(*                                                                         *)
(* The model follows the pipeline of Lox.run: the front end (Lexer and     *)
(* Parser) hands a statement list to the Resolver, which fills the         *)
(* interpreter's side table `locals`, and the Interpreter then executes    *)
(* the statements one by one.  The Resolver and the Interpreter are        *)
(* translated method by method into recursive operators over the AST;     *)
(* the driver (Lox, LoxREPL) is the state machine.                         *)
(*                                                                         *)
(* Python exceptions are results of the operators: "error" is a            *)
(* LoxRuntimeError, "return" is a ReturnException, and "crash" is any      *)
(* other Python exception (KeyError, AttributeError, AssertionError,       *)
(* TypeError, ZeroDivisionError), which no handler of the program catches. *)
(*                                                                         *)
(* The Resolver object is taken as constructed: resolver.py defines no     *)
(* visit_super_expr, so resolving a Super node runs the inherited body     *)
(* of ExprVisitor.visit_super_expr, which does nothing.  (The method is    *)
(* abstract, so Python refuses Resolver(...) with a TypeError as long as   *)
(* it is missing; the model describes the passes as they are written.)     *)
(* The statement lists are the ASTs of ast.py for the grammar of the       *)
(* language.                                                               *)
(*                                                                         *)
(* Six specifications share the variables.  Spec is a session: one file    *)
(* or the lines of a REPL.  SpecScript runs one script as a file: whole    *)
(* programs, and the programs built around one operator, one call or one   *)
(* declaration for every choice of operands.  SpecParse hands token        *)
(* streams to Parser.parse, translated method by method;                   *)
(* Parser.class_declaration cannot build a ClassStmt (TypeError), which    *)
(* is why the programs with classes of the other specifications are given  *)
(* as ASTs.  SpecSource runs scripts given as words through parser,        *)
(* resolver and interpreter.  SpecLex pulls the tokens of character        *)
(* sequences from the Lexer.  SpecEnv applies Environment.assign and       *)
(* Environment.define to chains of frames.                                 *)
(***************************************************************************)
EXTENDS Integers, Sequences, FiniteSets, TLC

\* ------------------------------------------------------------------------
\* Bounds of the model

\* Number of input lines one REPL session reads.
MaxLines == 2

\* Largest number of arguments a call script passes.
MaxArguments == 3

\* Largest number of stray tokens between a broken declaration and what
\* follows it in a token script.
MaxJunk == 2

\* Largest number of tokens before EOF in a short token stream.
MaxTokens == 4

\* Largest number of characters in a character script.
MaxChars == 4

\* Largest number of methods of the class a class script declares.
MaxMethods == 2

\* Largest number of frames in a chain of environments.
MaxFrames == 3

\* ------------------------------------------------------------------------
\* Tokens (lexer.py) and AST nodes (ast.py)

\* Python's None, for absent AST children and absent parents.
None == [k |-> "None"]

Location(row, col) == [row |-> row, col |-> col]

Token(type, lexeme, row, col) ==
    [type |-> type, lexeme |-> lexeme, loc |-> Location(row, col)]

Literal(value) == [k |-> "Literal", value |-> value]
Variable(name) == [k |-> "Variable", name |-> name]
Assign(name, value) == [k |-> "Assign", name |-> name, value |-> value]
Unary(operator, right) == [k |-> "Unary", operator |-> operator, right |-> right]
Binary(left, operator, right) ==
    [k |-> "Binary", left |-> left, operator |-> operator, right |-> right]
Logical(left, operator, right) ==
    [k |-> "Logical", left |-> left, operator |-> operator, right |-> right]
Grouping(expression) == [k |-> "Grouping", expression |-> expression]
Call(callee, paren, arguments) ==
    [k |-> "Call", callee |-> callee, paren |-> paren, arguments |-> arguments]
Get(obj, name) == [k |-> "Get", obj |-> obj, name |-> name]
Set(obj, name, value) == [k |-> "Set", obj |-> obj, name |-> name, value |-> value]
This(keyword) == [k |-> "This", keyword |-> keyword]
Super(keyword, method) == [k |-> "Super", keyword |-> keyword, method |-> method]

PrintStmt(expr) == [k |-> "PrintStmt", expr |-> expr]
ExprStmt(expr) == [k |-> "ExprStmt", expr |-> expr]
VarStmt(name, initializer) ==
    [k |-> "VarStmt", name |-> name, initializer |-> initializer]
ClassStmt(name, superclass, methods) ==
    [k |-> "ClassStmt", name |-> name, superclass |-> superclass, methods |-> methods]
FunctionStmt(name, params, body) ==
    [k |-> "FunctionStmt", name |-> name, params |-> params, body |-> body]
IfStmt(condition, then_branch, else_branch) ==
    [k |-> "IfStmt", condition |-> condition, then_branch |-> then_branch,
     else_branch |-> else_branch]
ReturnStmt(keyword, value) == [k |-> "ReturnStmt", keyword |-> keyword, value |-> value]
WhileStmt(condition, body) == [k |-> "WhileStmt", condition |-> condition, body |-> body]
BlockStmt(statements) == [k |-> "BlockStmt", statements |-> statements]

\* The node classes that derive from Expr.  Assign derives from ABC only.
ExprKinds ==
    {"Literal", "Variable", "Unary", "Binary", "Logical", "Grouping", "Call",
     "Get", "Set", "This", "Super"}

StmtKinds ==
    {"PrintStmt", "ExprStmt", "VarStmt", "ClassStmt", "FunctionStmt", "IfStmt",
     "ReturnStmt", "WhileStmt", "BlockStmt"}

\* ------------------------------------------------------------------------
\* Runtime values

Nil == [t |-> "nil"]
Bool(b) == [t |-> "bool", v |-> b]
Num(n) == [t |-> "num", v |-> n]
Str(s) == [t |-> "str", v |-> s]
\* The Clock object defined in the global frame.
ClockV == [t |-> "clock"]
\* References to LoxFunction, LoxClass and LoxInstance objects of the heap.
FunV(id) == [t |-> "fun", id |-> id]
ClassV(id) == [t |-> "class", id |-> id]
InstV(id) == [t |-> "inst", id |-> id]

\* A dict with no entries.
EmptyDict == [x \in {} |-> Nil]

\* ------------------------------------------------------------------------
\* Environment (environment.py).  Environment objects live in the heap
\* `envs`, a sequence of records [values, enclosing]; an object is named by
\* its index, and 0 stands for None.

\* Environment.__init__: a new frame with no bindings.
Environment(enclosing) == [values |-> EmptyDict, enclosing |-> enclosing]

\* Environment.define: insert or overwrite in the frame it is called on.
Environment_define(envs, env, name, value) ==
    [envs EXCEPT ![env].values = (name :> value) @@ @]

\* Environment.ancestor: follow `distance` parent links (none when distance
\* is not positive: range(distance) is empty).  Reading
\* .enclosing of None raises AttributeError; the result 0 stands for None
\* and for that failure, no caller can use either.
RECURSIVE Environment_ancestor(_, _, _)
Environment_ancestor(envs, env, distance) ==
    IF distance <= 0 \/ env = 0 THEN env
    ELSE Environment_ancestor(envs, envs[env].enclosing, distance - 1)

\* Environment.get_at: [ok, val]; not ok is an AttributeError (no such
\* ancestor) or a KeyError (the ancestor does not bind the name).
Environment_get_at(envs, env, distance, name) ==
    LET a == Environment_ancestor(envs, env, distance) IN
    IF a = 0 THEN [ok |-> FALSE, val |-> Str("AttributeError")]
    ELSE IF name \notin DOMAIN envs[a].values
         THEN [ok |-> FALSE, val |-> Str("KeyError")]
         ELSE [ok |-> TRUE, val |-> envs[a].values[name]]

\* Environment.assign_at: [ok, envs]; the ancestor's dict is written
\* whether or not it binds the name already.
Environment_assign_at(envs, env, distance, name, value) ==
    LET a == Environment_ancestor(envs, env, distance) IN
    IF a = 0 THEN [ok |-> FALSE, envs |-> envs]
    ELSE [ok |-> TRUE, envs |-> Environment_define(envs, a, name, value)]

\* Environment.assign that writes the frame it is called on.
AssignHere(envs, env, name, value) ==
    [ok |-> TRUE, envs |-> Environment_define(envs, env, name, value)]

\* Environment.assign: [ok, envs]; not ok is the LoxRuntimeError
\* "Undefined variable".
RECURSIVE Environment_assign(_, _, _, _)
Environment_assign(envs, env, name, value) ==
    IF name \in DOMAIN envs[env].values
    THEN [ok |-> TRUE, envs |-> Environment_define(envs, env, name, value)]
    ELSE IF envs[env].enclosing # 0
         THEN Environment_assign(envs, envs[env].enclosing, name, value)
         ELSE [ok |-> FALSE, envs |-> envs]

\* Environment.get: [ok, val]; not ok is the LoxRuntimeError
\* "Undefined variable".
RECURSIVE Environment_get(_, _, _)
Environment_get(envs, env, name) ==
    IF name \in DOMAIN envs[env].values
    THEN [ok |-> TRUE, val |-> envs[env].values[name]]
    ELSE IF envs[env].enclosing # 0
         THEN Environment_get(envs, envs[env].enclosing, name)
         ELSE [ok |-> FALSE, val |-> Nil]

\* ------------------------------------------------------------------------
\* Interpreter (interpreter.py): the objects

\* A LoxFunction object.  `bound` is not a field of the program: it names
\* the instance LoxFunction.bind was given (0: none) for the properties
\* about bound methods.
LoxFunction(declaration, closure, is_initializer, bound) ==
    [declaration |-> declaration, closure |-> closure,
     is_initializer |-> is_initializer, bound |-> bound]

\* A LoxClass object; superclass 0 is None.
LoxClass(name, superclass, methods) ==
    [name |-> name, superclass |-> superclass, methods |-> methods]

\* A LoxInstance object.
LoxInstance(klass) == [klass |-> klass, fields |-> EmptyDict]

\* The global frame is the first object of the heap of frames.
Globals == 1

\* Interpreter.__init__.  The fields of the Interpreter are environment
\* and locals; envs, funs, classes and insts are the heaps of the objects
\* it has created; printed is what it has written through print.  The other
\* fields observe the evaluation for the properties and are read by no
\* operation: frames (every execute_block and LoxFunction.call with the
\* current frame before and after), lookups (every lookup_variable), calls
\* (every completed LoxFunction.call), class_calls (every completed
\* LoxClass.call), depth (the number of active LoxFunction.call), raised
\* (the number of LoxRuntimeError raised), ret_depth (depth of the last
\* return statement) and site (who makes the next LoxFunction.call).
InterpreterInit ==
    [envs |-> << [values |-> ("clock" :> ClockV), enclosing |-> 0] >>,
     funs |-> << >>, classes |-> << >>, insts |-> << >>,
     environment |-> Globals, locals |-> EmptyDict, printed |-> << >>,
     frames |-> {}, lookups |-> {}, calls |-> << >>, class_calls |-> << >>,
     depth |-> 0, raised |-> 0, ret_depth |-> 0, site |-> "expr"]

\* The observation fields as they are when an input starts.
ClearTrace(st) ==
    [st EXCEPT !.frames = {}, !.lookups = {}, !.calls = << >>,
               !.class_calls = << >>, !.depth = 0, !.raised = 0,
               !.ret_depth = 0, !.site = "expr", !.printed = << >>]

\* The outcome of evaluating an expression or executing a statement: the
\* interpreter after it, how it ended ("ok", "return", "error", "crash")
\* and the value (of the expression, of the return, or the message).
Result(st, sig, val) == [st |-> st, sig |-> sig, val |-> val]
Normal(st, val) == Result(st, "ok", val)
\* raise LoxRuntimeError(token, message)
RuntimeError(st, message) ==
    Result([st EXCEPT !.raised = @ + 1], "error", Str(message))
\* Any other Python exception.
Crash(st, what) == Result(st, "crash", Str(what))

\* Truthiness as Python's bool() has it: zero and the empty string are
\* falsy too.
PythonTruthy(value) ==
    IF value.t = "nil" THEN FALSE
    ELSE IF value.t = "bool" THEN value.v
    ELSE IF value.t = "num" THEN value.v # 0
    ELSE IF value.t = "str" THEN value.v # ""
    ELSE TRUE

\* Interpreter.truthy
truthy(value) ==
    IF value.t = "nil" THEN FALSE
    ELSE IF value.t = "bool" THEN value.v
    ELSE TRUE

\* Python's == on the values: bool is a subclass of int, so True == 1.0
\* and False == 0.0; objects without __eq__ compare by identity.  A
\* quotient that is not an integer is compared as a fraction.
PyEq(a, b) ==
    LET numerator(x) == IF x.t = "bool" THEN (IF x.v THEN 1 ELSE 0) ELSE x.v
        denominator(x) == IF "d" \in DOMAIN x THEN x.d ELSE 1
    IN  IF a.t \in {"bool", "num"} /\ b.t \in {"bool", "num"}
        THEN numerator(a) * denominator(b) = numerator(b) * denominator(a)
        ELSE a = b

\* is_equal with nil on the left equal to everything.
NilEqualsAll(a, b) ==
    IF a.t = "nil" THEN TRUE
    ELSE PyEq(a, b)

\* Interpreter.is_equal
is_equal(a, b) ==
    IF a.t = "nil" /\ b.t = "nil" THEN TRUE
    ELSE IF a.t = "nil" THEN FALSE
    ELSE PyEq(a, b)

\* isinstance(value, LoxCallable)
IsCallable(value) == value.t \in {"fun", "class", "clock"}

\* LoxClass.find_method: the LoxFunction (0: None) found on the class or
\* on the first ancestor that has one.
RECURSIVE find_method(_, _, _)
find_method(classes, klass, name) ==
    IF name \in DOMAIN classes[klass].methods THEN classes[klass].methods[name]
    ELSE IF classes[klass].superclass # 0
         THEN find_method(classes, classes[klass].superclass, name)
         ELSE 0

\* arity with a class looking for init among its own methods only.
OwnInitArity(st, callee) ==
    IF callee.t = "fun" THEN Len(st.funs[callee.id].declaration.params)
    ELSE IF callee.t = "class"
         THEN IF "init" \in DOMAIN st.classes[callee.id].methods
              THEN Len(st.funs[st.classes[callee.id].methods["init"]].declaration.params)
              ELSE 0
         ELSE 0

\* LoxFunction.arity, LoxClass.arity, Clock.arity
arity(st, callee) ==
    IF callee.t = "fun" THEN Len(st.funs[callee.id].declaration.params)
    ELSE IF callee.t = "class"
         THEN LET initializer == find_method(st.classes, callee.id, "init") IN
              IF initializer # 0
              THEN Len(st.funs[initializer].declaration.params)
              ELSE 0
         ELSE 0

\* LoxFunction.bind: a frame {this: instance} whose parent is the method's
\* closure, and a new LoxFunction closed over it.  The new function is the
\* last object of funs.
bind(st, f, instance) ==
    LET environment == Len(st.envs) + 1
        fn == st.funs[f]
    IN  [st EXCEPT
            !.envs = Environment_define(Append(@, Environment(fn.closure)),
                                        environment, "this", InstV(instance)),
            !.funs = Append(@, LoxFunction(fn.declaration, environment,
                                           fn.is_initializer, instance))]

\* hash(expr), which a lookup in `locals` computes: the generated __hash__
\* of a frozen dataclass hashes its fields, and the list of a Call is
\* unhashable (TypeError).
RECURSIVE Hashable(_)
Hashable(expr) ==
    CASE expr.k = "Call" -> FALSE
      [] expr.k = "Assign" -> Hashable(expr.value)
      [] expr.k = "Unary" -> Hashable(expr.right)
      [] expr.k \in {"Binary", "Logical"} -> Hashable(expr.left) /\ Hashable(expr.right)
      [] expr.k = "Grouping" -> Hashable(expr.expression)
      [] expr.k = "Get" -> Hashable(expr.obj)
      [] expr.k = "Set" -> Hashable(expr.obj) /\ Hashable(expr.value)
      [] OTHER -> TRUE

\* self.locals.get(expr, None): the key is the node compared by value
\* (dataclass equality over its tokens, their lexemes and locations).
\* -1 stands for None.
LocalsGet(locals, expr) == IF expr \in DOMAIN locals THEN locals[expr] ELSE -1

\* ------------------------------------------------------------------------
\* Interpreter (interpreter.py): calls and blocks

RECURSIVE evaluate(_, _), execute(_, _)

\* for stmt in statements: self.execute(stmt)
RECURSIVE ExecuteStatements(_, _, _)
ExecuteStatements(statements, i, st) ==
    IF i > Len(statements) THEN Normal(st, Nil)
    ELSE LET r == execute(statements[i], st) IN
         IF r.sig # "ok" THEN r
         ELSE ExecuteStatements(statements, i + 1, r.st)

\* execute_block without its finally clause: the frame of the block stays
\* current.
LeakFrame(r, previous) == r

\* The finally clause of execute_block: self.environment = previous,
\* however the statements ended.
RestorePrevious(r, previous) == [r EXCEPT !.st.environment = previous]

\* The frame pointer before and after an execute_block, as observed.
LogBlock(r, previous) ==
    [r EXCEPT !.st.frames =
        @ \cup {[kind |-> "block", exit |-> r.sig,
                 before |-> previous, after |-> r.st.environment]}]

\* Interpreter.execute_block
execute_block(statements, environment, st) ==
    LogBlock(RestorePrevious(
                 ExecuteStatements(statements, 1,
                                   [st EXCEPT !.environment = environment]),
                 st.environment),
             st.environment)

\* for par, arg in zip(self.declaration.params, arguments):
\*     environment.define(par.lexeme, arg)
RECURSIVE DefineParameters(_, _, _, _, _)
DefineParameters(envs, environment, params, arguments, i) ==
    IF i > Len(params) \/ i > Len(arguments) THEN envs
    ELSE DefineParameters(
             Environment_define(envs, environment, params[i].lexeme, arguments[i]),
             environment, params, arguments, i + 1)

\* LoxFunction.call dropping the value of the ReturnException.
CallOutcomeValueDropped(fn, r) ==
    LET this == Environment_get_at(r.st.envs, fn.closure, 0, "this")
        instance == IF this.ok THEN Normal(r.st, this.val)
                    ELSE Crash(r.st, this.val.v)
    IN  CASE r.sig = "return" ->
                IF fn.is_initializer THEN instance ELSE Normal(r.st, Nil)
          [] r.sig = "ok" ->
                IF fn.is_initializer THEN instance ELSE Normal(r.st, Nil)
          [] OTHER -> r

\* LoxFunction.call without the is_initializer test in its except clause.
CallOutcomeReturnUnchecked(fn, r) ==
    LET this == Environment_get_at(r.st.envs, fn.closure, 0, "this")
        instance == IF this.ok THEN Normal(r.st, this.val)
                    ELSE Crash(r.st, this.val.v)
    IN  CASE r.sig = "return" -> Normal(r.st, r.val)
          [] r.sig = "ok" ->
                IF fn.is_initializer THEN instance ELSE Normal(r.st, Nil)
          [] OTHER -> r

\* What LoxFunction.call makes of the way the body ended (r): a
\* ReturnException is caught and gives its value, the end of the body
\* gives nil, and an initializer gives closure.get_at(0, "this") in both
\* cases; any other exception goes on.
CallOutcome(fn, r) ==
    LET this == Environment_get_at(r.st.envs, fn.closure, 0, "this")
        instance == IF this.ok THEN Normal(r.st, this.val)
                    ELSE Crash(r.st, this.val.v)
    IN  CASE r.sig = "return" ->
                IF fn.is_initializer THEN instance ELSE Normal(r.st, r.val)
          [] r.sig = "ok" ->
                IF fn.is_initializer THEN instance ELSE Normal(r.st, Nil)
          [] OTHER -> r

\* environment = Environment(self.closure) with the parameters defined; the
\* new frame is the last object of envs.
CallFrame(fn, arguments, st) ==
    [st EXCEPT
        !.envs = DefineParameters(Append(@, Environment(fn.closure)),
                                  Len(st.envs) + 1, fn.declaration.params,
                                  arguments, 1),
        !.depth = @ + 1, !.site = "expr"]

\* The call as observed: the frame pointer before and after it, and, for a
\* call that returned to its caller, how the body ended (r) and what the
\* call evaluated to (out).
LogCall(f, fn, st, r, out) ==
    [out EXCEPT
        !.st.depth = st.depth,
        !.st.frames = @ \cup {[kind |-> "call", exit |-> r.sig,
                               before |-> st.environment,
                               after |-> out.st.environment]},
        !.st.calls =
            IF out.sig = "ok"
            THEN Append(@, [f |-> f, is_initializer |-> fn.is_initializer,
                            bound |-> fn.bound, site |-> st.site,
                            exit |-> IF r.sig = "ok" THEN "end" ELSE r.sig,
                            carried |-> r.val, result |-> out.val,
                            raised_at |-> r.st.ret_depth,
                            caught_at |-> st.depth + 1])
            ELSE @]

\* The try statement of LoxFunction.call and what follows it, r being the
\* way execute_block ended.
CallBody(f, fn, st, r) == LogCall(f, fn, st, r, CallOutcome(fn, r))

\* LoxFunction.call
LoxFunction_call(f, arguments, st) ==
    CallBody(f, st.funs[f], st,
             execute_block(st.funs[f].declaration.body, Len(st.envs) + 1,
                           CallFrame(st.funs[f], arguments, st)))

\* LoxClass.call returning what the initializer returned.
InitializerValue(r, instance) == r.val

\* return instance
ClassCallValue(r, instance) == InstV(instance)

\* The class call as observed, r being the way the initializer ended.
LogClassCall(klass, instance, initializer, r) ==
    IF r.sig # "ok" THEN r
    ELSE Normal([r.st EXCEPT
                    !.class_calls =
                        Append(@, [klass |-> klass, instance |-> instance,
                                   insts_before |-> instance - 1,
                                   initializer |-> initializer,
                                   result |-> ClassCallValue(r, instance)])],
                ClassCallValue(r, instance))

\* initializer = self.find_method("init"); if initializer is not None:
\*     initializer.bind(instance).call(interpreter, arguments)
CallInitializer(klass, arguments, st, instance, initializer) ==
    LogClassCall(klass, instance, initializer,
                 IF initializer # 0
                 THEN LoxFunction_call(
                          Len(st.funs) + 1, arguments,
                          [bind(st, initializer, instance) EXCEPT !.site = "class"])
                 ELSE Normal(st, Nil))

\* LoxClass.call
LoxClass_call(klass, arguments, st) ==
    CallInitializer(klass, arguments,
                    [st EXCEPT !.insts = Append(@, LoxInstance(klass))],
                    Len(st.insts) + 1, find_method(st.classes, klass, "init"))

\* arguments = [self.evaluate(arg) for arg in expr.arguments]; the value of
\* an "ok" result is the list.
RECURSIVE EvaluateArguments(_, _, _, _)
EvaluateArguments(arguments, i, st, values) ==
    IF i > Len(arguments) THEN Normal(st, values)
    ELSE LET r == evaluate(arguments[i], st) IN
         IF r.sig # "ok" THEN r
         ELSE EvaluateArguments(arguments, i + 1, r.st, Append(values, r.val))

\* Interpreter.visit_call_expr, from the test of the callee on.  Clock.call
\* returns time.time(), modelled as the number 0.
CallValue(callee, arguments, st) ==
    IF ~IsCallable(callee)
    THEN RuntimeError(st, "Only functions and classes can be called.")
    ELSE IF Len(arguments) # arity(st, callee)
    THEN RuntimeError(st, "Expected N arguments, but got M.")
    ELSE CASE callee.t = "fun" -> LoxFunction_call(callee.id, arguments, st)
           [] callee.t = "class" -> LoxClass_call(callee.id, arguments, st)
           [] OTHER -> Normal(st, Num(0))

\* Interpreter.visit_call_expr, after the arguments.
CallWithArguments(callee, arguments) ==
    IF arguments.sig # "ok" THEN arguments
    ELSE CallValue(callee, arguments.val, arguments.st)

\* Interpreter.visit_call_expr, after callee = self.evaluate(expr.callee).
CallWithCallee(expr, callee) ==
    IF callee.sig # "ok" THEN callee
    ELSE CallWithArguments(callee.val,
                           EvaluateArguments(expr.arguments, 1, callee.st, << >>))

\* Interpreter.visit_call_expr
visit_call_expr(expr, st) == CallWithCallee(expr, evaluate(expr.callee, st))

\* ------------------------------------------------------------------------
\* Interpreter (interpreter.py): expressions

\* A lookup as observed: the node, the distance found for it in locals
\* (-1 for none), the current frame, and whether the name was found.
LogLookup(st, expr, distance, found) ==
    [st EXCEPT !.lookups =
        @ \cup {[expr |-> expr, distance |-> distance,
                 environment |-> st.environment, found |-> found]}]

\* The value a lookup found, or the exception it ended with.
LookedUp(st, expr, distance, got) ==
    IF got.ok THEN Normal(LogLookup(st, expr, distance, TRUE), got.val)
    ELSE IF distance # -1
    THEN Crash(LogLookup(st, expr, distance, FALSE), got.val.v)
    ELSE RuntimeError(LogLookup(st, expr, distance, FALSE), "Undefined variable.")

\* Interpreter.lookup_variable
lookup_variable(name, expr, st) ==
    IF LocalsGet(st.locals, expr) # -1
    THEN LookedUp(st, expr, LocalsGet(st.locals, expr),
                  Environment_get_at(st.envs, st.environment,
                                     LocalsGet(st.locals, expr), name.lexeme))
    ELSE LookedUp(st, expr, -1, Environment_get(st.envs, Globals, name.lexeme))

\* Interpreter.visit_variable_expr
visit_variable_expr(expr, st) == lookup_variable(expr.name, expr, st)

\* Interpreter.visit_this_expr
visit_this_expr(expr, st) == lookup_variable(expr.keyword, expr, st)

\* Interpreter.visit_assign_expr
visit_assign_expr(expr, st) ==
    LET value == evaluate(expr.value, st)
        distance == LocalsGet(value.st.locals, expr)
        local == Environment_assign_at(value.st.envs, value.st.environment,
                                       distance, expr.name.lexeme, value.val)
        global == Environment_assign(value.st.envs, Globals,
                                     expr.name.lexeme, value.val)
    IN  IF value.sig # "ok" THEN value
        ELSE IF ~Hashable(expr) THEN Crash(value.st, "TypeError")
        ELSE IF distance # -1
        THEN IF local.ok THEN Normal([value.st EXCEPT !.envs = local.envs], value.val)
             ELSE Crash(value.st, "AttributeError")
        ELSE IF global.ok
             THEN Normal([value.st EXCEPT !.envs = global.envs], value.val)
             ELSE RuntimeError(value.st, "Undefined variable.")

\* check_number_operands refusing every pair of operands.
NoOperandsAccepted(left, right) == FALSE

\* Interpreter.check_number_operands
check_number_operands(left, right) == left.t = "num" /\ right.t = "num"

\* float(left) / float(right): Python raises ZeroDivisionError for a zero
\* divisor.  The numbers of the model are integers; a quotient that is not
\* one is kept as the pair of its operands.
Quotient(left, right) ==
    IF left.v % right.v = 0 THEN Num(left.v \div right.v)
    ELSE [t |-> "num", v |-> left.v, d |-> right.v]

\* Interpreter.visit_binary_expr
visit_binary_expr(expr, st) ==
    LET left == evaluate(expr.left, st)
        right == evaluate(expr.right, left.st)
        l == left.val
        r == right.val
        type == expr.operator.type
        numbers == RuntimeError(right.st, "Operands must be a numbers.")
    IN  IF left.sig # "ok" THEN left
        ELSE IF right.sig # "ok" THEN right
        ELSE CASE type = "BANG_EQUAL" -> Normal(right.st, Bool(~is_equal(l, r)))
               [] type = "EQUAL_EQUAL" -> Normal(right.st, Bool(is_equal(l, r)))
               [] type = "GREATER" ->
                    IF check_number_operands(l, r)
                    THEN Normal(right.st, Bool(l.v > r.v)) ELSE numbers
               [] type = "GREATER_EQUAL" ->
                    IF check_number_operands(l, r)
                    THEN Normal(right.st, Bool(l.v >= r.v)) ELSE numbers
               [] type = "LESS" ->
                    IF check_number_operands(l, r)
                    THEN Normal(right.st, Bool(l.v < r.v)) ELSE numbers
               [] type = "LESS_EQUAL" ->
                    IF check_number_operands(l, r)
                    THEN Normal(right.st, Bool(l.v <= r.v)) ELSE numbers
               [] type = "MINUS" ->
                    IF check_number_operands(l, r)
                    THEN Normal(right.st, Num(l.v - r.v)) ELSE numbers
               [] type = "PLUS" ->
                    IF l.t = "num" /\ r.t = "num"
                    THEN Normal(right.st, Num(l.v + r.v))
                    ELSE IF r.t = "str" /\ l.t = "str"
                    THEN Normal(right.st, Str(l.v \o r.v))
                    ELSE RuntimeError(right.st,
                                      "Both operands must be strings or numbers.")
               [] type = "SLASH" ->
                    IF ~check_number_operands(l, r) THEN numbers
                    ELSE IF r.v = 0 THEN Crash(right.st, "ZeroDivisionError")
                    ELSE Normal(right.st, Quotient(l, r))
               [] type = "STAR" ->
                    IF check_number_operands(l, r)
                    THEN Normal(right.st, Num(l.v * r.v)) ELSE numbers
               [] OTHER -> Normal(right.st, Nil)

\* Interpreter.visit_unary_expr
visit_unary_expr(expr, st) ==
    LET right == evaluate(expr.right, st) IN
    IF right.sig # "ok" THEN right
    ELSE CASE expr.operator.type = "BANG" ->
                Normal(right.st, Bool(~truthy(right.val)))
           [] expr.operator.type = "MINUS" ->
                IF right.val.t = "num" THEN Normal(right.st, Num(0 - right.val.v))
                ELSE RuntimeError(right.st, "Operand must be a number.")
           [] OTHER -> Normal(right.st, Nil)

\* Interpreter.visit_logical_expr
visit_logical_expr(expr, st) ==
    LET left == evaluate(expr.left, st) IN
    IF left.sig # "ok" THEN left
    ELSE IF expr.operator.type = "OR" /\ truthy(left.val) THEN left
    ELSE IF expr.operator.type = "AND" /\ ~truthy(left.val) THEN left
    ELSE IF expr.operator.type \notin {"OR", "AND"}
    THEN Crash(left.st, "AssertionError")
    ELSE evaluate(expr.right, left.st)

\* LoxInstance.get looking for a method before the field.
MethodBeforeField(instance, name, st) ==
    LET method == find_method(st.classes, st.insts[instance].klass, name.lexeme)
        bound == bind(st, method, instance)
    IN  IF method # 0 THEN Normal(bound, FunV(Len(bound.funs)))
        ELSE IF name.lexeme \in DOMAIN st.insts[instance].fields
        THEN Normal(st, st.insts[instance].fields[name.lexeme])
        ELSE RuntimeError(st, "Undefined property.")

\* LoxInstance.get
LoxInstance_get(instance, name, st) ==
    LET method == find_method(st.classes, st.insts[instance].klass, name.lexeme)
        bound == bind(st, method, instance)
    IN  IF name.lexeme \in DOMAIN st.insts[instance].fields
        THEN Normal(st, st.insts[instance].fields[name.lexeme])
        ELSE IF method # 0 THEN Normal(bound, FunV(Len(bound.funs)))
        ELSE RuntimeError(st, "Undefined property.")

\* Interpreter.visit_get_expr
visit_get_expr(expr, st) ==
    LET obj == evaluate(expr.obj, st) IN
    IF obj.sig # "ok" THEN obj
    ELSE IF obj.val.t = "inst" THEN LoxInstance_get(obj.val.id, expr.name, obj.st)
    ELSE RuntimeError(obj.st, "Only instances have properties.")

\* visit_set_expr evaluating the value before the object.
SetValueFirst(expr, st) ==
    LET value == evaluate(expr.value, st)
        obj == evaluate(expr.obj, value.st)
    IN  IF value.sig # "ok" THEN value
        ELSE IF obj.sig # "ok" THEN obj
        ELSE IF obj.val.t # "inst"
        THEN RuntimeError(obj.st, "Only instances have fields.")
        ELSE Normal([obj.st EXCEPT !.insts[obj.val.id].fields =
                        (expr.name.lexeme :> value.val) @@ @],
                    value.val)

\* Interpreter.visit_set_expr, with LoxInstance.set
visit_set_expr(expr, st) ==
    LET obj == evaluate(expr.obj, st)
        value == evaluate(expr.value, obj.st)
    IN  IF obj.sig # "ok" THEN obj
        ELSE IF obj.val.t # "inst"
        THEN RuntimeError(obj.st, "Only instances have fields.")
        ELSE IF value.sig # "ok" THEN value
        ELSE Normal([value.st EXCEPT !.insts[obj.val.id].fields =
                        (expr.name.lexeme :> value.val) @@ @],
                    value.val)

\* Interpreter.visit_super_expr.  With no distance recorded, get_at(None,
\* ...) raises TypeError in range(None).
visit_super_expr(expr, st) ==
    LET distance == LocalsGet(st.locals, expr)
        superclass == Environment_get_at(st.envs, st.environment, distance, "super")
        obj == Environment_get_at(st.envs, st.environment, distance - 1, "this")
        method == find_method(st.classes, superclass.val.id, expr.method.lexeme)
        bound == bind(st, method, obj.val.id)
    IN  IF distance = -1 THEN Crash(st, "TypeError")
        ELSE IF ~superclass.ok THEN Crash(st, superclass.val.v)
        ELSE IF ~obj.ok THEN Crash(st, obj.val.v)
        ELSE IF method = 0 THEN RuntimeError(st, "Undefined property.")
        ELSE Normal(bound, FunV(Len(bound.funs)))

\* Interpreter.evaluate: expr.accept(self)
evaluate(expr, st) ==
    CASE expr.k = "Literal" -> Normal(st, expr.value)
      [] expr.k = "Grouping" -> evaluate(expr.expression, st)
      [] expr.k = "Variable" -> visit_variable_expr(expr, st)
      [] expr.k = "Assign" -> visit_assign_expr(expr, st)
      [] expr.k = "Unary" -> visit_unary_expr(expr, st)
      [] expr.k = "Binary" -> visit_binary_expr(expr, st)
      [] expr.k = "Logical" -> visit_logical_expr(expr, st)
      [] expr.k = "Call" -> visit_call_expr(expr, st)
      [] expr.k = "Get" -> visit_get_expr(expr, st)
      [] expr.k = "Set" -> visit_set_expr(expr, st)
      [] expr.k = "This" -> visit_this_expr(expr, st)
      [] expr.k = "Super" -> visit_super_expr(expr, st)

\* ------------------------------------------------------------------------
\* Interpreter (interpreter.py): statements

\* Interpreter.visit_block_stmt
visit_block_stmt(stmt, st) ==
    execute_block(stmt.statements, Len(st.envs) + 1,
                  [st EXCEPT !.envs = Append(@, Environment(st.environment))])

\* for method in stmt.methods: methods[method.name.lexeme] =
\*     LoxFunction(method, self.environment, method.name.lexeme == "init")
\* The result is [funs, methods].
RECURSIVE MakeMethods(_, _, _, _, _)
MakeMethods(declarations, i, environment, funs, methods) ==
    IF i > Len(declarations) THEN [funs |-> funs, methods |-> methods]
    ELSE MakeMethods(
             declarations, i + 1, environment,
             Append(funs, LoxFunction(declarations[i], environment,
                                      declarations[i].name.lexeme = "init", 0)),
             (declarations[i].name.lexeme :> Len(funs) + 1) @@ methods)

\* self.environment.define(stmt.name.lexeme, None)
ClassDeclared(stmt, st) ==
    [st EXCEPT !.envs = Environment_define(@, st.environment,
                                           stmt.name.lexeme, Nil)]

\* self.environment = Environment(self.environment)
\* self.environment.define("super", superclass)
SuperFrame(st, superclass) ==
    [st EXCEPT
        !.envs = Environment_define(Append(@, Environment(st.environment)),
                                    Len(st.envs) + 1, "super", superclass),
        !.environment = Len(st.envs) + 1]

\* klass = LoxClass(stmt.name.lexeme, superclass, methods); superclass is
\* the class object or 0 for None.
ClassCreated(stmt, st, superclass, made) ==
    [st EXCEPT !.funs = made.funs,
               !.classes = Append(@, LoxClass(stmt.name.lexeme, superclass,
                                              made.methods))]

\* The methods and the class, in the current frame.
ClassMade(stmt, st, superclass) ==
    ClassCreated(stmt, st, superclass,
                 MakeMethods(stmt.methods, 1, st.environment, st.funs, EmptyDict))

\* The frame of `super` left as the current frame.
SuperFrameKept(st) == st

\* self.environment = self.environment.enclosing
SuperFramePopped(st) ==
    [st EXCEPT !.environment = st.envs[st.environment].enclosing]

\* The outcome of self.environment.assign(stmt.name, klass).
ClassAssigned(st, assigned) ==
    IF ~assigned.ok THEN RuntimeError(st, "Undefined variable.")
    ELSE Normal([st EXCEPT !.envs = assigned.envs], Nil)

\* self.environment.assign(stmt.name, klass), klass being the last class
\* created.
AssignClass(stmt, st) ==
    ClassAssigned(st, Environment_assign(st.envs, st.environment,
                                         stmt.name.lexeme,
                                         ClassV(Len(st.classes))))

\* Interpreter.visit_class_stmt for a class with a superclass, after
\* superclass = self.evaluate(stmt.superclass).
ClassWithSuperclass(stmt, superclass) ==
    IF superclass.sig # "ok" THEN superclass
    ELSE IF superclass.val.t # "class"
    THEN RuntimeError(superclass.st, "Superclass must be a class.")
    ELSE AssignClass(
             stmt,
             SuperFramePopped(
                 ClassMade(stmt,
                           SuperFrame(ClassDeclared(stmt, superclass.st),
                                      superclass.val),
                           superclass.val.id)))

\* Interpreter.visit_class_stmt
visit_class_stmt(stmt, st) ==
    IF stmt.superclass # None
    THEN ClassWithSuperclass(stmt, evaluate(stmt.superclass, st))
    ELSE AssignClass(stmt, ClassMade(stmt, ClassDeclared(stmt, st), 0))

\* Interpreter.visit_expr_stmt
visit_expr_stmt(stmt, st) ==
    LET value == evaluate(stmt.expr, st) IN
    IF value.sig # "ok" THEN value ELSE Normal(value.st, Nil)

\* Interpreter.visit_function_stmt
visit_function_stmt(stmt, st) ==
    Normal([st EXCEPT
               !.funs = Append(@, LoxFunction(stmt, st.environment, FALSE, 0)),
               !.envs = Environment_define(@, st.environment, stmt.name.lexeme,
                                           FunV(Len(st.funs) + 1))],
           Nil)

\* Interpreter.visit_if_stmt
visit_if_stmt(stmt, st) ==
    LET condition == evaluate(stmt.condition, st) IN
    IF condition.sig # "ok" THEN condition
    ELSE IF truthy(condition.val) THEN execute(stmt.then_branch, condition.st)
    ELSE IF stmt.else_branch # None THEN execute(stmt.else_branch, condition.st)
    ELSE Normal(condition.st, Nil)

\* Interpreter.visit_print_stmt: the value is appended to what was printed
\* (stringify and the text written are not modelled).
visit_print_stmt(stmt, st) ==
    LET value == evaluate(stmt.expr, st) IN
    IF value.sig # "ok" THEN value
    ELSE Normal([value.st EXCEPT !.printed = Append(@, value.val)], Nil)

\* Interpreter.visit_return_stmt: raise ReturnException(value)
visit_return_stmt(stmt, st) ==
    LET value == IF stmt.value # None THEN evaluate(stmt.value, st)
                 ELSE Normal(st, Nil)
    IN  IF value.sig # "ok" THEN value
        ELSE Result([value.st EXCEPT !.ret_depth = value.st.depth],
                    "return", value.val)

\* Interpreter.visit_var_stmt
visit_var_stmt(stmt, st) ==
    LET value == IF stmt.initializer # None THEN evaluate(stmt.initializer, st)
                 ELSE Normal(st, Nil)
    IN  IF value.sig # "ok" THEN value
        ELSE Normal([value.st EXCEPT
                        !.envs = Environment_define(@, value.st.environment,
                                                    stmt.name.lexeme, value.val)],
                    Nil)

\* Interpreter.visit_while_stmt
RECURSIVE visit_while_stmt(_, _)
visit_while_stmt(stmt, st) ==
    LET condition == evaluate(stmt.condition, st)
        body == execute(stmt.body, condition.st)
    IN  IF condition.sig # "ok" THEN condition
        ELSE IF ~truthy(condition.val) THEN Normal(condition.st, Nil)
        ELSE IF body.sig # "ok" THEN body
        ELSE visit_while_stmt(stmt, body.st)

\* Interpreter.execute: stmt.accept(self)
execute(stmt, st) ==
    CASE stmt.k = "BlockStmt" -> visit_block_stmt(stmt, st)
      [] stmt.k = "ClassStmt" -> visit_class_stmt(stmt, st)
      [] stmt.k = "ExprStmt" -> visit_expr_stmt(stmt, st)
      [] stmt.k = "FunctionStmt" -> visit_function_stmt(stmt, st)
      [] stmt.k = "IfStmt" -> visit_if_stmt(stmt, st)
      [] stmt.k = "PrintStmt" -> visit_print_stmt(stmt, st)
      [] stmt.k = "ReturnStmt" -> visit_return_stmt(stmt, st)
      [] stmt.k = "VarStmt" -> visit_var_stmt(stmt, st)
      [] stmt.k = "WhileStmt" -> visit_while_stmt(stmt, st)

\* ------------------------------------------------------------------------
\* Resolver (resolver.py).  The state of a pass: the fields of the Resolver
\* (scopes, current_function, current_class), the side table of the
\* interpreter it writes (locals), had_error of the Lox object, and crash,
\* set when a Python exception left the pass (every later step is then
\* skipped, as the exception propagates to the caller of Lox.run).
\* `recorded`, `errors` and `visits` observe the pass: the nodes it
\* recorded a distance for, the number of errors it reported, and for
\* every statement visited the scope depth and the two trackers before
\* the visit and when it was left.

\* Resolver.__init__
ResolverInit(locals, had_error) ==
    [scopes |-> << >>, current_function |-> "NONE", current_class |-> "NONE",
     locals |-> locals, had_error |-> had_error, crash |-> FALSE,
     recorded |-> {}, errors |-> 0, visits |-> {}]

\* Lox.error_at and Lox.report: print the message, set had_error.
Lox_error_at(rs) == [rs EXCEPT !.had_error = TRUE, !.errors = @ + 1]

\* self.lox.error(...): the Lox class has no attribute `error`
\* (AttributeError).
Lox_error(rs) == [rs EXCEPT !.crash = TRUE]

\* Resolver.begin_scope
begin_scope(rs) ==
    IF rs.crash THEN rs ELSE [rs EXCEPT !.scopes = Append(@, EmptyDict)]

\* Resolver.end_scope
end_scope(rs) ==
    IF rs.crash THEN rs ELSE [rs EXCEPT !.scopes = SubSeq(@, 1, Len(@) - 1)]

\* Resolver.declare without the report of a name already in the scope.
DeclareAgain(rs, name) ==
    IF rs.crash \/ rs.scopes = << >> THEN rs
    ELSE [rs EXCEPT !.scopes[Len(rs.scopes)] = (name.lexeme :> FALSE) @@ @]

\* Resolver.declare
declare(rs, name) ==
    IF rs.crash \/ rs.scopes = << >> THEN rs
    ELSE LET rs1 == IF name.lexeme \in DOMAIN rs.scopes[Len(rs.scopes)]
                    THEN Lox_error_at(rs) ELSE rs
         IN  [rs1 EXCEPT !.scopes[Len(rs.scopes)] = (name.lexeme :> FALSE) @@ @]

\* Resolver.define
define(rs, name) ==
    IF rs.crash \/ rs.scopes = << >> THEN rs
    ELSE [rs EXCEPT !.scopes[Len(rs.scopes)] = (name.lexeme :> TRUE) @@ @]

\* Interpreter.resolve: self.locals[expr] = depth
Interpreter_resolve(rs, expr, depth) ==
    [rs EXCEPT !.locals = (expr :> depth) @@ @, !.recorded = @ \cup {expr}]

\* Resolver.resolve_local
resolve_local(rs, expr, name) ==
    LET hits == {i \in 0 .. Len(rs.scopes) - 1 :
                    name.lexeme \in DOMAIN rs.scopes[Len(rs.scopes) - i]}
    IN  IF rs.crash \/ hits = {} THEN rs
        ELSE Interpreter_resolve(rs, expr, CHOOSE i \in hits : \A j \in hits : i <= j)

\* The depth of the scope stack and the two trackers of the Resolver.
Nesting(rs) ==
    [depth |-> Len(rs.scopes), current_function |-> rs.current_function,
     current_class |-> rs.current_class]

\* The visit of a statement that began in rs has been left in after.
Visited(rs, after) ==
    [after EXCEPT !.visits = @ \cup {[before |-> Nesting(rs), after |-> Nesting(after)]}]

RECURSIVE Resolver_resolve(_, _)

\* Resolver.resolve of a list: for stmt in what: self.resolve(stmt)
RECURSIVE ResolveAll(_, _, _)
ResolveAll(what, i, rs) ==
    IF i > Len(what) THEN rs
    ELSE ResolveAll(what, i + 1, Resolver_resolve(what[i], rs))

\* for param in function.params: self.declare(param); self.define(param)
RECURSIVE DeclareParameters(_, _, _)
DeclareParameters(params, i, rs) ==
    IF i > Len(params) THEN rs
    ELSE DeclareParameters(params, i + 1, define(declare(rs, params[i]), params[i]))

\* Resolver.resolve_function
resolve_function(function, type, rs) ==
    LET enclosing_function == rs.current_function
        rs1 == begin_scope([rs EXCEPT !.current_function = type])
        rs2 == end_scope(ResolveAll(function.body, 1,
                                    DeclareParameters(function.params, 1, rs1)))
    IN  IF rs.crash THEN rs
        ELSE IF rs2.crash THEN rs2
        ELSE [rs2 EXCEPT !.current_function = enclosing_function]

\* for method in stmt.methods: ... self.resolve_function(method, declaration)
RECURSIVE ResolveMethods(_, _, _)
ResolveMethods(methods, i, rs) ==
    IF i > Len(methods) THEN rs
    ELSE ResolveMethods(
             methods, i + 1,
             resolve_function(methods[i],
                              IF methods[i].name.lexeme = "init"
                              THEN "INITIALIZER" ELSE "METHOD",
                              rs))

\* Resolver.visit_class_stmt: stmt.superclass is not looked at, and no
\* scope is pushed for `super`.
Resolver_visit_class_stmt(stmt, rs) ==
    LET enclosing_class == rs.current_class
        rs1 == define(declare([rs EXCEPT !.current_class = "CLASS"], stmt.name),
                      stmt.name)
        rs2 == begin_scope(rs1)
        rs3 == IF rs2.crash THEN rs2
               ELSE [rs2 EXCEPT !.scopes[Len(rs2.scopes)] = ("this" :> TRUE) @@ @]
        rs4 == end_scope(ResolveMethods(stmt.methods, 1, rs3))
    IN  IF rs4.crash THEN rs4
        ELSE [rs4 EXCEPT !.current_class = enclosing_class]

\* Resolver.visit_var_stmt
Resolver_visit_var_stmt(stmt, rs) ==
    LET rs1 == declare(rs, stmt.name)
        rs2 == IF stmt.initializer # None
               THEN Resolver_resolve(stmt.initializer, rs1) ELSE rs1
    IN  define(rs2, stmt.name)

\* Resolver.visit_variable_expr
Resolver_visit_variable_expr(expr, rs) ==
    LET rs1 == IF /\ rs.scopes # << >>
                  /\ expr.name.lexeme \in DOMAIN rs.scopes[Len(rs.scopes)]
                  /\ rs.scopes[Len(rs.scopes)][expr.name.lexeme] = FALSE
               THEN Lox_error_at(rs) ELSE rs
    IN  resolve_local(rs1, expr, expr.name)

\* Resolver.visit_assign_expr
Resolver_visit_assign_expr(expr, rs) ==
    resolve_local(Resolver_resolve(expr.value, rs), expr, expr.name)

\* Resolver.visit_function_stmt
Resolver_visit_function_stmt(stmt, rs) ==
    resolve_function(stmt, "FUNCTION", define(declare(rs, stmt.name), stmt.name))

\* Resolver.visit_if_stmt
Resolver_visit_if_stmt(stmt, rs) ==
    LET rs1 == Resolver_resolve(stmt.then_branch,
                                Resolver_resolve(stmt.condition, rs))
    IN  IF stmt.else_branch # None THEN Resolver_resolve(stmt.else_branch, rs1)
        ELSE rs1

\* Resolver.visit_return_stmt
Resolver_visit_return_stmt(stmt, rs) ==
    LET rs1 == IF rs.current_function = "NONE" THEN Lox_error(rs) ELSE rs
        rs2 == IF rs1.current_function = "INITIALIZER" THEN Lox_error_at(rs1)
               ELSE rs1
    IN  IF rs1.crash THEN rs1
        ELSE IF stmt.value # None THEN Resolver_resolve(stmt.value, rs2)
        ELSE rs1

\* Resolver.visit_this_expr
Resolver_visit_this_expr(expr, rs) ==
    IF rs.current_class = "NONE" THEN Lox_error(rs)
    ELSE resolve_local(rs, expr, expr.keyword)

\* Resolver.visit_call_expr
Resolver_visit_call_expr(expr, rs) ==
    ResolveAll(expr.arguments, 1, Resolver_resolve(expr.callee, rs))

\* what.accept(self) for the Resolver.  A Super node reaches
\* ExprVisitor.visit_super_expr, whose body is `pass`.
Resolver_accept(what, rs) ==
    CASE what.k = "BlockStmt" ->
            end_scope(ResolveAll(what.statements, 1, begin_scope(rs)))
      [] what.k = "ClassStmt" -> Resolver_visit_class_stmt(what, rs)
      [] what.k = "VarStmt" -> Resolver_visit_var_stmt(what, rs)
      [] what.k = "FunctionStmt" -> Resolver_visit_function_stmt(what, rs)
      [] what.k = "ExprStmt" -> Resolver_resolve(what.expr, rs)
      [] what.k = "IfStmt" -> Resolver_visit_if_stmt(what, rs)
      [] what.k = "PrintStmt" -> Resolver_resolve(what.expr, rs)
      [] what.k = "ReturnStmt" -> Resolver_visit_return_stmt(what, rs)
      [] what.k = "WhileStmt" ->
            Resolver_resolve(what.body, Resolver_resolve(what.condition, rs))
      [] what.k = "Variable" -> Resolver_visit_variable_expr(what, rs)
      [] what.k = "Assign" -> Resolver_visit_assign_expr(what, rs)
      [] what.k \in {"Binary", "Logical"} ->
            Resolver_resolve(what.right, Resolver_resolve(what.left, rs))
      [] what.k = "Call" -> Resolver_visit_call_expr(what, rs)
      [] what.k = "Get" -> Resolver_resolve(what.obj, rs)
      [] what.k = "Grouping" -> Resolver_resolve(what.expression, rs)
      [] what.k = "Literal" -> rs
      [] what.k = "Set" ->
            Resolver_resolve(what.obj, Resolver_resolve(what.value, rs))
      [] what.k = "This" -> Resolver_visit_this_expr(what, rs)
      [] what.k = "Unary" -> Resolver_resolve(what.right, rs)
      [] what.k = "Super" -> rs

\* Resolver.resolve of one node: a Stmt or an Expr is visited; anything
\* else, which an Assign node is (class Assign(ABC)), fails the assertion
\* "Unreachable" (AssertionError).
Resolver_resolve(what, rs) ==
    IF rs.crash THEN rs
    ELSE IF what.k \in StmtKinds THEN Visited(rs, Resolver_accept(what, rs))
    ELSE IF what.k \in ExprKinds THEN Resolver_accept(what, rs)
    ELSE [rs EXCEPT !.crash = TRUE]

\* ---------------------------------------------------------------------
\* Lexer (lexer.py) over PeekableIO (utils.py).  The source is a sequence
\* of characters; position is the number of characters consumed
\* (PeekableIO.tell).  A scanning method gives the lexer it leaves, how
\* it ended ("ok", or "crash" for a Python exception) and the token it
\* returns, None when it returns nothing.  The literal of a token is
\* TokenLiteral of it.
\* ---------------------------------------------------------------------

\* Lexer.__init__
LexerInit(chars) ==
    [chars |-> chars, position |-> 0, had_error |-> FALSE, exhausted |-> FALSE,
     lnum |-> 0, bol |-> 0]

\* PeekableIO.peek: "" when there are no more characters.
chars_peek(lx, index) ==
    IF lx.position + 1 + index <= Len(lx.chars)
    THEN lx.chars[lx.position + 1 + index] ELSE ""

\* PeekableIO.exhausted
chars_exhausted(lx) == chars_peek(lx, 0) = ""

\* PeekableIO.consume
chars_consume(lx) == [lx EXCEPT !.position = @ + 1]

\* str.isdigit
isdigit(ch) == ch \in {"0", "1", "2", "3", "4", "5", "6", "7", "8", "9"}

\* str.isidentifier of one character
isidentifier(ch) ==
    ch \in {"a", "b", "c", "d", "e", "f", "g", "h", "i", "j", "k", "l", "m",
            "n", "o", "p", "q", "r", "s", "t", "u", "v", "w", "x", "y", "z",
            "K", "_"}

\* token_type_from_identifier.get(ident_str, TokenType.IDENTIFIER)
token_type_from_identifier(ident_str) ==
    CASE ident_str = "and" -> "AND"
      [] ident_str = "class" -> "CLASS"
      [] ident_str = "else" -> "ELSE"
      [] ident_str = "false" -> "FALSE"
      [] ident_str = "for" -> "FOR"
      [] ident_str = "fun" -> "FUN"
      [] ident_str = "if" -> "IF"
      [] ident_str = "nil" -> "NIL"
      [] ident_str = "or" -> "OR"
      [] ident_str = "print" -> "PRINT"
      [] ident_str = "return" -> "RETURN"
      [] ident_str = "super" -> "SUPER"
      [] ident_str = "this" -> "THIS"
      [] ident_str = "true" -> "TRUE"
      [] ident_str = "var" -> "VAR"
      [] ident_str = "while" -> "WHILE"
      [] OTHER -> "IDENTIFIER"

\* Lexer.loc
Lexer_loc(lx) == Location(lx.lnum + 1, lx.position - lx.bol)

\* Lexer.error: sets the Lexer's had_error and prints the message.
Lexer_error(lx) == [lx EXCEPT !.had_error = TRUE]

\* return self.token(type, lexeme), or a return of nothing.
Scanned(lx, type, lexeme) ==
    [lx |-> lx, sig |-> "ok",
     val |-> Token(type, lexeme, Lexer_loc(lx).row, Lexer_loc(lx).col)]

Skipped(lx) == [lx |-> lx, sig |-> "ok", val |-> None]

\* `if self.chars.accept(second)` of the one- or two-character operators.
Operator(lx, ch, second, two, one) ==
    IF chars_peek(lx, 0) = second
    THEN Scanned(chars_consume(lx), two, ch \o second)
    ELSE Scanned(lx, one, ch)

\* The loop of a comment: to the end of the line or of the source.
RECURSIVE comment(_)
comment(lx) ==
    IF chars_peek(lx, 0) # "\n" /\ ~chars_exhausted(lx)
    THEN comment(chars_consume(lx)) ELSE lx

\* Lexer.scan_string_literal: the characters up to the closing quote are
\* the lexeme and the literal; at the end of the source self.error is
\* called with one argument instead of two (TypeError).
RECURSIVE scan_string_literal(_, _)
scan_string_literal(lx, value) ==
    IF chars_peek(lx, 0) # "\"" /\ ~chars_exhausted(lx)
    THEN scan_string_literal(
             IF chars_peek(lx, 0) = "\n"
             THEN [chars_consume(lx) EXCEPT !.lnum = @ + 1, !.bol = lx.position + 1]
             ELSE chars_consume(lx),
             value \o chars_peek(lx, 0))
    ELSE IF chars_exhausted(lx)
    THEN [lx |-> lx, sig |-> "crash", val |-> Str("TypeError")]
    ELSE Scanned(chars_consume(lx), "STRING", value)

\* The loops of Lexer.scan_number_literal: digits, then a fractional part
\* when a digit follows the point.
RECURSIVE digits(_, _)
digits(lx, number_str) ==
    IF isdigit(chars_peek(lx, 0))
    THEN digits(chars_consume(lx), number_str \o chars_peek(lx, 0))
    ELSE [lx |-> lx, str |-> number_str]

Fraction(d) ==
    IF chars_peek(d.lx, 0) = "." /\ isdigit(chars_peek(d.lx, 1))
    THEN digits(chars_consume(d.lx), d.str \o ".")
    ELSE d

NumberToken(d) == Scanned(d.lx, "NUMBER", d.str)

\* Lexer.scan_number_literal
scan_number_literal(lx, starting_char) ==
    NumberToken(Fraction(digits(lx, starting_char)))

\* Lexer.scan_identifier
RECURSIVE scan_identifier(_, _)
scan_identifier(lx, ident_str) ==
    IF isidentifier(chars_peek(lx, 0)) \/ isdigit(chars_peek(lx, 0))
    THEN scan_identifier(chars_consume(lx), ident_str \o chars_peek(lx, 0))
    ELSE Scanned(lx, token_type_from_identifier(ident_str), ident_str)

\* Lexer.scan_token after ch = next(self.chars): lx has consumed ch.
ScanFrom(lx, ch) ==
    CASE ch = "(" -> Scanned(lx, "LEFT_PAREN", ch)
      [] ch = ")" -> Scanned(lx, "RIGHT_PAREN", ch)
      [] ch = "{" -> Scanned(lx, "LEFT_BRACE", ch)
      [] ch = "}" -> Scanned(lx, "RIGHT_BRACE", ch)
      [] ch = "," -> Scanned(lx, "COMMA", ch)
      [] ch = "." -> Scanned(lx, "DOT", ch)
      [] ch = "-" -> Scanned(lx, "MINUS", ch)
      [] ch = "+" -> Scanned(lx, "PLUS", ch)
      [] ch = ";" -> Scanned(lx, "SEMICOLON", ch)
      [] ch = "*" -> Scanned(lx, "STAR", ch)
      [] ch = "!" -> Operator(lx, ch, "=", "BANG_EQUAL", "BANG")
      [] ch = "=" -> Operator(lx, ch, "=", "EQUAL_EQUAL", "EQUAL")
      [] ch = "<" -> Operator(lx, ch, "=", "LESS_EQUAL", "LESS")
      [] ch = ">" -> Operator(lx, ch, "=", "GREATER_EQUAL", "GREATER")
      [] ch = "/" -> IF chars_peek(lx, 0) = "/"
                     THEN Skipped(comment(chars_consume(lx)))
                     ELSE Scanned(lx, "SLASH", ch)
      [] ch \in {" ", "\r", "\t"} -> Skipped(lx)
      [] ch = "\n" -> Skipped([lx EXCEPT !.lnum = @ + 1, !.bol = lx.position])
      [] ch = "\"" -> scan_string_literal(lx, "")
      [] isdigit(ch) -> scan_number_literal(lx, ch)
      [] isidentifier(ch) -> scan_identifier(lx, ch)
      [] OTHER -> Skipped(Lexer_error(lx))

\* Lexer.scan_token
scan_token(lx) == ScanFrom(chars_consume(lx), chars_peek(lx, 0))

\* Lexer.next_token: scan until a token is returned; at the end of the
\* source set exhausted and return EOF.
RECURSIVE next_token(_)
TokenOrNext(r) ==
    IF r.sig = "ok" /\ r.val = None THEN next_token(r.lx) ELSE r

next_token(lx) ==
    IF chars_peek(lx, 0) # ""
    THEN TokenOrNext(scan_token(lx))
    ELSE Scanned([lx EXCEPT !.exhausted = TRUE], "EOF", "")

\* ---------------------------------------------------------------------
\* Parser (parser.py).  The state of a parser: the tokens the Lexer
\* yields (the last one EOF), the position of the Peekable over them,
\* had_error, the reports made through Lox.error_at, and (for the
\* properties) the resynchronisations made: where the error was raised
\* and where synchronize stopped, and the calls of declaration: the
\* position each began and ended at.  A parsing
\* method gives the state it leaves, how it ended ("ok", or "error" for a
\* LoxParserError on its way up, or "crash" for another Python
\* exception) and the node it returns.
\* ---------------------------------------------------------------------

\* Parser.__init__
ParserInit(tokens) ==
    [tokens |-> tokens, position |-> 1, had_error |-> FALSE, reports |-> << >>,
     resyncs |-> << >>, declarations |-> << >>]

\* self.lexer.peek()
peek(p) == p.tokens[p.position]

\* Parser.exhausted
exhausted(p) == peek(p).type = "EOF"

\* A method returns val.
Parsed(p, val) == [p |-> p, sig |-> "ok", val |-> val]

\* raise of the LoxParserError that Parser.error returned.
Raise(p) == [p |-> p, sig |-> "error", val |-> None]

\* The rest of a method after a call that may raise.
Bind(r, Rest(_)) == IF r.sig # "ok" THEN r ELSE Rest(r)

\* Parser.error: sets had_error and reports through Lox.error_at.
Parser_error(p, token, message) ==
    [p EXCEPT !.had_error = TRUE,
              !.reports = Append(@, [token |-> token, position |-> p.position,
                                     message |-> message])]

\* Parser.consume (the token it returns is peek(p))
consume(p) == IF exhausted(p) THEN p ELSE [p EXCEPT !.position = @ + 1]

\* Parser.expect
expect(p, types, message) ==
    IF peek(p).type \in types THEN Parsed(consume(p), peek(p))
    ELSE Raise(Parser_error(p, peek(p), message))

\* token.literal of a NUMBER or STRING token, as the Lexer computes it
\* from the lexeme.
TokenLiteral(token) ==
    CASE token.type = "STRING" -> Str(token.lexeme)
      [] token.lexeme = "0" -> Num(0)
      [] token.lexeme = "1" -> Num(1)
      [] token.lexeme = "9" -> Num(9)

RECURSIVE expression(_), assignment(_), logical_or(_), logical_or_loop(_),
          logical_and(_), logical_and_loop(_), equality(_), equality_loop(_),
          comparison(_), comparison_loop(_), term(_), term_loop(_),
          factor(_), factor_loop(_), unary(_), call(_), call_loop(_),
          finish_call(_, _), call_arguments(_, _), primary(_)

\* expr = Binary(expr, operator, right) or Logical(expr, operator, right)
\* in the loop of a binary rule: left is the result so far, the operator
\* the token it stopped at.
Operation(kind, left, right) ==
    IF right.sig # "ok" THEN right
    ELSE Parsed(right.p,
                IF kind = "Logical"
                THEN Logical(left.val, peek(left.p), right.val)
                ELSE Binary(left.val, peek(left.p), right.val))

\* Parser.expression
expression(p) == assignment(p)

\* Parser.assignment, after the value: the error for an invalid target is
\* reported and not raised.
AssignTo(expr, equals, value) ==
    IF expr.val.k = "Variable"
    THEN Parsed(value.p, Assign(expr.val.name, value.val))
    ELSE IF expr.val.k = "Get"
    THEN Parsed(value.p, Set(expr.val.obj, expr.val.name, value.val))
    ELSE Parsed(Parser_error(value.p, equals, "Invalid assignment target."),
                expr.val)

\* Parser.assignment
assignment(p) ==
    Bind(logical_or(p), LAMBDA expr :
        IF peek(expr.p).type = "EQUAL"
        THEN Bind(assignment(consume(expr.p)), LAMBDA value :
                AssignTo(expr, peek(expr.p), value))
        ELSE expr)

\* Parser.logical_or
logical_or(p) == logical_or_loop(logical_and(p))

logical_or_loop(expr) ==
    IF expr.sig # "ok" \/ peek(expr.p).type # "OR" THEN expr
    ELSE logical_or_loop(Operation("Logical", expr, logical_and(consume(expr.p))))

\* Parser.logical_and
logical_and(p) == logical_and_loop(equality(p))

logical_and_loop(expr) ==
    IF expr.sig # "ok" \/ peek(expr.p).type # "AND" THEN expr
    ELSE logical_and_loop(Operation("Logical", expr, equality(consume(expr.p))))

\* Parser.equality
equality(p) == equality_loop(comparison(p))

equality_loop(expr) ==
    IF expr.sig # "ok" \/ peek(expr.p).type \notin {"EQUAL_EQUAL", "BANG_EQUAL"}
    THEN expr
    ELSE equality_loop(Operation("Binary", expr, comparison(consume(expr.p))))

\* Parser.comparison
comparison(p) == comparison_loop(term(p))

comparison_loop(expr) ==
    IF \/ expr.sig # "ok"
       \/ peek(expr.p).type \notin {"GREATER", "GREATER_EQUAL", "LESS", "LESS_EQUAL"}
    THEN expr
    ELSE comparison_loop(Operation("Binary", expr, term(consume(expr.p))))

\* Parser.term
term(p) == term_loop(factor(p))

term_loop(expr) ==
    IF expr.sig # "ok" \/ peek(expr.p).type \notin {"MINUS", "PLUS"} THEN expr
    ELSE term_loop(Operation("Binary", expr, factor(consume(expr.p))))

\* Parser.factor
factor(p) == factor_loop(unary(p))

factor_loop(expr) ==
    IF expr.sig # "ok" \/ peek(expr.p).type \notin {"STAR", "SLASH"} THEN expr
    ELSE factor_loop(Operation("Binary", expr, unary(consume(expr.p))))

\* Parser.unary
unary(p) ==
    IF peek(p).type \in {"BANG", "MINUS"}
    THEN Bind(unary(consume(p)), LAMBDA right :
            Parsed(right.p, Unary(peek(p), right.val)))
    ELSE call(p)

\* Parser.call
call(p) == call_loop(primary(p))

call_loop(expr) ==
    IF expr.sig # "ok" THEN expr
    ELSE IF peek(expr.p).type = "LEFT_PAREN"
    THEN call_loop(finish_call(consume(expr.p), expr.val))
    ELSE IF peek(expr.p).type = "DOT"
    THEN call_loop(
            Bind(expect(consume(expr.p), {"IDENTIFIER"},
                        "Expected property name after '.'."),
                 LAMBDA name : Parsed(name.p, Get(expr.val, name.val))))
    ELSE expr

\* Parser.finish_call: the loop over the arguments.
call_arguments(p, arguments) ==
    Bind(expression(IF Len(arguments) >= 255
                    THEN Parser_error(p, peek(p),
                                      "Can't have more than 255 arguments.")
                    ELSE p),
         LAMBDA argument :
            IF peek(argument.p).type = "COMMA"
            THEN call_arguments(consume(argument.p),
                                Append(arguments, argument.val))
            ELSE Parsed(argument.p, Append(arguments, argument.val)))

\* Parser.finish_call
finish_call(p, callee) ==
    Bind(IF peek(p).type # "RIGHT_PAREN" THEN call_arguments(p, << >>)
         ELSE Parsed(p, << >>),
         LAMBDA arguments :
            Bind(expect(arguments.p, {"RIGHT_PAREN"},
                        "Expected ')' after arguments."),
                 LAMBDA paren :
                    Parsed(paren.p, Call(callee, paren.val, arguments.val))))

\* Parser.primary
primary(p) ==
    CASE peek(p).type = "FALSE" -> Parsed(consume(p), Literal(Bool(FALSE)))
      [] peek(p).type = "TRUE" -> Parsed(consume(p), Literal(Bool(TRUE)))
      [] peek(p).type = "NIL" -> Parsed(consume(p), Literal(Nil))
      [] peek(p).type \in {"NUMBER", "STRING"} ->
            Parsed(consume(p), Literal(TokenLiteral(peek(p))))
      [] peek(p).type = "IDENTIFIER" -> Parsed(consume(p), Variable(peek(p)))
      [] peek(p).type = "LEFT_PAREN" ->
            Bind(expression(consume(p)), LAMBDA expr :
                Bind(expect(expr.p, {"RIGHT_PAREN"},
                            "Expected ')' after expression."),
                     LAMBDA paren : Parsed(paren.p, Grouping(expr.val))))
      [] OTHER -> Raise(Parser_error(p, peek(p), "Expression expected."))

RECURSIVE declaration(_), statement(_), block_stmt(_), block_statements(_, _),
          for_stmt(_), if_stmt(_), while_stmt(_), function_declaration(_, _),
          class_declaration(_), class_methods(_, _), synchronize(_)

\* Parser.print_stmt
print_stmt(p) ==
    Bind(expression(p), LAMBDA value :
        Bind(expect(value.p, {"SEMICOLON"}, "Expected ';' after value."),
             LAMBDA semicolon : Parsed(semicolon.p, PrintStmt(value.val))))

\* Parser.return_stmt
return_stmt(p) ==
    Bind(IF peek(consume(p)).type # "SEMICOLON" THEN expression(consume(p))
         ELSE Parsed(consume(p), None),
         LAMBDA value :
            Bind(expect(value.p, {"SEMICOLON"}, "Expected ';' after return value."),
                 LAMBDA semicolon :
                    Parsed(semicolon.p, ReturnStmt(peek(p), value.val))))

\* Parser.var_declaration
var_declaration(p) ==
    Bind(expect(p, {"IDENTIFIER"}, "Variable name expected."), LAMBDA name :
        Bind(IF peek(name.p).type = "EQUAL" THEN expression(consume(name.p))
             ELSE Parsed(name.p, None),
             LAMBDA initializer :
                Bind(expect(initializer.p, {"SEMICOLON"},
                            "Expected ';' after variable declaration."),
                     LAMBDA semicolon :
                        Parsed(semicolon.p, VarStmt(name.val, initializer.val)))))

\* Parser.expr_stmt
expr_stmt(p) ==
    Bind(expression(p), LAMBDA expr :
        Bind(expect(expr.p, {"SEMICOLON"}, "Expected ';' after expression."),
             LAMBDA semicolon : Parsed(semicolon.p, ExprStmt(expr.val))))

\* Parser.while_stmt
while_stmt(p) ==
    Bind(expect(p, {"LEFT_PAREN"}, "Expected '(' after 'while'."), LAMBDA paren :
        Bind(expression(paren.p), LAMBDA condition :
            Bind(expect(condition.p, {"RIGHT_PAREN"}, "Expected ')' after condition."),
                 LAMBDA close :
                    Bind(statement(close.p), LAMBDA body :
                        Parsed(body.p, WhileStmt(condition.val, body.val))))))

\* Parser.if_stmt
if_stmt(p) ==
    Bind(expect(p, {"LEFT_PAREN"}, "Expected '(' after 'if'."), LAMBDA paren :
        Bind(expression(paren.p), LAMBDA condition :
            Bind(expect(condition.p, {"RIGHT_PAREN"}, "Expected ')' after if contidion."),
                 LAMBDA close :
                    Bind(statement(close.p), LAMBDA then_branch :
                        Bind(IF peek(then_branch.p).type = "ELSE"
                             THEN statement(consume(then_branch.p))
                             ELSE Parsed(then_branch.p, None),
                             LAMBDA else_branch :
                                Parsed(else_branch.p,
                                       IfStmt(condition.val, then_branch.val,
                                              else_branch.val)))))))

\* Parser.for_stmt with the increment put before the body.
IncrementFirst(initializer, condition, increment, body) ==
    LET stepped == IF increment # None
                   THEN BlockStmt(<< ExprStmt(increment), body >>)
                   ELSE body
        loop == WhileStmt(IF condition = None THEN Literal(Bool(TRUE))
                          ELSE condition,
                          stepped)
    IN  IF initializer # None THEN BlockStmt(<< initializer, loop >>) ELSE loop

\* Parser.for_stmt, the end: the while loop built from the clauses.
ForLoop(initializer, condition, increment, body) ==
    LET stepped == IF increment # None
                   THEN BlockStmt(<< body, ExprStmt(increment) >>)
                   ELSE body
        loop == WhileStmt(IF condition = None THEN Literal(Bool(TRUE))
                          ELSE condition,
                          stepped)
    IN  IF initializer # None THEN BlockStmt(<< initializer, loop >>) ELSE loop

\* Parser.for_stmt
for_stmt(p) ==
    Bind(expect(p, {"LEFT_PAREN"}, "Expected '(' after 'for'."), LAMBDA paren :
        Bind(CASE peek(paren.p).type = "SEMICOLON" -> Parsed(consume(paren.p), None)
               [] peek(paren.p).type = "VAR" -> var_declaration(consume(paren.p))
               [] OTHER -> expr_stmt(paren.p),
             LAMBDA initializer :
        Bind(IF peek(initializer.p).type # "SEMICOLON"
             THEN expression(initializer.p)
             ELSE Parsed(initializer.p, None),
             LAMBDA condition :
        Bind(expect(condition.p, {"SEMICOLON"}, "Expected ';' after loop contition."),
             LAMBDA semicolon :
        Bind(IF peek(semicolon.p).type # "RIGHT_PAREN"
             THEN expression(semicolon.p)
             ELSE Parsed(semicolon.p, None),
             LAMBDA increment :
        Bind(expect(increment.p, {"RIGHT_PAREN"}, "Expected ')' after for clauses."),
             LAMBDA close :
        Bind(statement(close.p), LAMBDA body :
            Parsed(body.p, ForLoop(initializer.val, condition.val,
                                   increment.val, body.val)))))))))

\* Parser.statement
statement(p) ==
    CASE peek(p).type = "FOR" -> for_stmt(consume(p))
      [] peek(p).type = "IF" -> if_stmt(consume(p))
      [] peek(p).type = "PRINT" -> print_stmt(consume(p))
      [] peek(p).type = "RETURN" -> return_stmt(p)
      [] peek(p).type = "WHILE" -> while_stmt(consume(p))
      [] peek(p).type = "LEFT_BRACE" -> block_stmt(consume(p))
      [] OTHER -> expr_stmt(p)

\* Parser.block_stmt: the loop over the declarations.
block_statements(p, stmts) ==
    IF ~exhausted(p) /\ peek(p).type # "RIGHT_BRACE"
    THEN Bind(declaration(p), LAMBDA stmt :
            block_statements(stmt.p, Append(stmts, stmt.val)))
    ELSE Parsed(p, stmts)

\* Parser.block_stmt
block_stmt(p) ==
    Bind(block_statements(p, << >>), LAMBDA stmts :
        Bind(expect(stmts.p, {"RIGHT_BRACE"}, "Expected '}' after block."),
             LAMBDA brace : Parsed(brace.p, BlockStmt(stmts.val))))

\* Parser.function_declaration: the loop over the parameters.
RECURSIVE function_parameters(_, _)
function_parameters(p, parameters) ==
    Bind(expect(IF Len(parameters) >= 255
                THEN Parser_error(p, peek(p),
                                  "Can't have more than 255 parameters.")
                ELSE p,
                {"IDENTIFIER"}, "Expected parameter name."),
         LAMBDA parameter :
            IF peek(parameter.p).type = "COMMA"
            THEN function_parameters(consume(parameter.p),
                                     Append(parameters, parameter.val))
            ELSE Parsed(parameter.p, Append(parameters, parameter.val)))

\* Parser.function_declaration
function_declaration(p, kind) ==
    Bind(expect(p, {"IDENTIFIER"}, "Expected " \o kind \o " name."), LAMBDA name :
        Bind(expect(name.p, {"LEFT_PAREN"}, "Expected '(' after " \o kind \o " name."),
             LAMBDA paren :
        Bind(IF peek(paren.p).type # "RIGHT_PAREN"
             THEN function_parameters(paren.p, << >>)
             ELSE Parsed(paren.p, << >>),
             LAMBDA parameters :
        Bind(expect(parameters.p, {"RIGHT_PAREN"}, "Expected ')' after parameters."),
             LAMBDA close :
        Bind(expect(close.p, {"LEFT_BRACE"}, "Expected '{' before " \o kind \o " body."),
             LAMBDA brace :
        Bind(block_stmt(brace.p), LAMBDA body :
            Parsed(body.p, FunctionStmt(name.val, parameters.val,
                                        body.val.statements))))))))

\* Parser.class_declaration: the loop over the methods.
class_methods(p, methods) ==
    IF peek(p).type # "RIGHT_BRACE" /\ ~exhausted(p)
    THEN Bind(function_declaration(p, "method"), LAMBDA method :
            class_methods(method.p, Append(methods, method.val)))
    ELSE Parsed(p, methods)

\* Parser.class_declaration.  ClassStmt(name, methods) gives the
\* dataclass two of its three fields (name, superclass, methods): Python
\* raises TypeError.
class_declaration(p) ==
    Bind(expect(p, {"IDENTIFIER"}, "Expected class name."), LAMBDA name :
        Bind(expect(name.p, {"LEFT_BRACE"}, "Expected '{' after class name."),
             LAMBDA brace :
        Bind(class_methods(brace.p, << >>), LAMBDA methods :
        Bind(expect(methods.p, {"RIGHT_BRACE"}, "Expected '}' after class body."),
             LAMBDA close :
            [p |-> close.p, sig |-> "crash", val |-> Str("TypeError")]))))

\* Parser.synchronize
synchronize(p) ==
    IF exhausted(p) THEN p
    ELSE IF peek(p).type = "SEMICOLON" THEN consume(p)
    ELSE IF peek(p).type \in {"CLASS", "FUN", "VAR", "FOR", "IF", "WHILE",
                              "PRINT", "RETURN"}
    THEN p
    ELSE synchronize(consume(p))

\* Parser.declaration, the except clause.
Synchronized(r) ==
    IF r.sig = "error"
    THEN Parsed([synchronize(r.p) EXCEPT
                    !.resyncs = Append(@, [from |-> r.p.position,
                                           to |-> synchronize(r.p).position])],
                None)
    ELSE r

\* The call of declaration made at p has ended with r.
Declared(p, r) ==
    [r EXCEPT !.p.declarations = Append(@, [from |-> p.position,
                                            to |-> r.p.position])]

\* Parser.declaration
declaration(p) ==
    Declared(p,
        Synchronized(
            CASE peek(p).type = "CLASS" -> class_declaration(consume(p))
              [] peek(p).type = "FUN" -> function_declaration(consume(p), "function")
              [] peek(p).type = "VAR" -> var_declaration(consume(p))
              [] OTHER -> statement(p)))

\* Parser.parse: the loop over the declarations.
RECURSIVE parse_statements(_, _)
parse_statements(p, stmts) ==
    IF ~exhausted(p)
    THEN Bind(declaration(p), LAMBDA stmt :
            parse_statements(stmt.p, Append(stmts, stmt.val)))
    ELSE Parsed(p, stmts)

\* Parser.parse
parse(p) == parse_statements(p, << >>)

\* ---------------------------------------------------------------------
\* Inputs.  Each input is one source text (a file, or one REPL line) given
\* by what the front end makes of it: the statements parse() returns, with
\* the token locations the Lexer assigns, whether the Lexer reported an
\* invalid character, whether it met an unterminated string, and the
\* number of errors the Parser reported.  Class declarations are given as
\* the ClassStmt nodes of ast.py.
\* ---------------------------------------------------------------------

\*   var a = 1; { var b = 2; { print a + b; } }
SrcBlocks ==
    <<
        VarStmt(Token("IDENTIFIER", "a", 1, 5), Literal(Num(1))),
        BlockStmt(<<VarStmt(Token("IDENTIFIER", "b", 1, 18),
        Literal(Num(2))),
        BlockStmt(<<PrintStmt(Binary(Variable(Token("IDENTIFIER", "a", 1,
        33)), Token("PLUS", "+", 1, 35), Variable(Token("IDENTIFIER", "b", 1,
        37))))>>)>>)
    >>

\*   fun f(x) { if (x) return 1; }
\*   fun g() { { nil + 1; } }
\*   print f(true); print f(false); g(); print 9;
SrcCalls ==
    <<
        FunctionStmt(Token("IDENTIFIER", "f", 1, 5), <<Token("IDENTIFIER",
        "x", 1, 7)>>, <<IfStmt(Variable(Token("IDENTIFIER", "x", 1, 16)),
        ReturnStmt(Token("RETURN", "return", 1, 24), Literal(Num(1))),
        None)>>),
        FunctionStmt(Token("IDENTIFIER", "g", 2, 5), <<>>,
        <<BlockStmt(<<ExprStmt(Binary(Literal(Nil), Token("PLUS", "+", 2,
        17), Literal(Num(1))))>>)>>),
        PrintStmt(Call(Variable(Token("IDENTIFIER", "f", 3, 7)),
        Token("RIGHT_PAREN", ")", 3, 13), <<Literal(Bool(TRUE))>>)),
        PrintStmt(Call(Variable(Token("IDENTIFIER", "f", 3, 22)),
        Token("RIGHT_PAREN", ")", 3, 29), <<Literal(Bool(FALSE))>>)),
        ExprStmt(Call(Variable(Token("IDENTIFIER", "g", 3, 32)),
        Token("RIGHT_PAREN", ")", 3, 34), <<>>)),
        PrintStmt(Literal(Num(9)))
    >>

\*   fun inner() { while (true) { { if (true) return 7; } } }
\*   fun outer() { var x = inner(); return x + 1; }
\*   print outer();
SrcNestedReturn ==
    <<
        FunctionStmt(Token("IDENTIFIER", "inner", 1, 9), <<>>,
        <<WhileStmt(Literal(Bool(TRUE)),
        BlockStmt(<<BlockStmt(<<IfStmt(Literal(Bool(TRUE)),
        ReturnStmt(Token("RETURN", "return", 1, 47), Literal(Num(7))),
        None)>>)>>))>>),
        FunctionStmt(Token("IDENTIFIER", "outer", 2, 9), <<>>,
        <<VarStmt(Token("IDENTIFIER", "x", 2, 19),
        Call(Variable(Token("IDENTIFIER", "inner", 2, 27)),
        Token("RIGHT_PAREN", ")", 2, 29), <<>>)), ReturnStmt(Token("RETURN",
        "return", 2, 37), Binary(Variable(Token("IDENTIFIER", "x", 2, 39)),
        Token("PLUS", "+", 2, 41), Literal(Num(1))))>>),
        PrintStmt(Call(Variable(Token("IDENTIFIER", "outer", 3, 11)),
        Token("RIGHT_PAREN", ")", 3, 13), <<>>))
    >>

\*   class A { init(x) { this.x = x; } get() { return this.x; } }
\*   class B < A { }
\*   class C { init() { return; } m() { } }
\*   class D { }
\*   var b = B(1); print b.get(); print b.init(2) == b;
\*   var c = C(); print c.init() == c; print c.m(); print D();
SrcClasses ==
    <<
        ClassStmt(Token("IDENTIFIER", "A", 1, 7), None,
        <<FunctionStmt(Token("IDENTIFIER", "init", 1, 14),
        <<Token("IDENTIFIER", "x", 1, 16)>>,
        <<ExprStmt(Set(This(Token("THIS", "this", 1, 24)),
        Token("IDENTIFIER", "x", 1, 26), Variable(Token("IDENTIFIER", "x", 1,
        30))))>>), FunctionStmt(Token("IDENTIFIER", "get", 1, 37), <<>>,
        <<ReturnStmt(Token("RETURN", "return", 1, 48), Get(This(Token("THIS",
        "this", 1, 53)), Token("IDENTIFIER", "x", 1, 55)))>>)>>),
        ClassStmt(Token("IDENTIFIER", "B", 2, 7),
        Variable(Token("IDENTIFIER", "A", 2, 11)), <<>>),
        ClassStmt(Token("IDENTIFIER", "C", 3, 7), None,
        <<FunctionStmt(Token("IDENTIFIER", "init", 3, 14), <<>>,
        <<ReturnStmt(Token("RETURN", "return", 3, 25), None)>>),
        FunctionStmt(Token("IDENTIFIER", "m", 3, 30), <<>>, <<>>)>>),
        ClassStmt(Token("IDENTIFIER", "D", 4, 7), None, <<>>),
        VarStmt(Token("IDENTIFIER", "b", 5, 5),
        Call(Variable(Token("IDENTIFIER", "B", 5, 9)), Token("RIGHT_PAREN",
        ")", 5, 12), <<Literal(Num(1))>>)),
        PrintStmt(Call(Get(Variable(Token("IDENTIFIER", "b", 5, 21)),
        Token("IDENTIFIER", "get", 5, 25)), Token("RIGHT_PAREN", ")", 5, 27),
        <<>>)),
        PrintStmt(Binary(Call(Get(Variable(Token("IDENTIFIER", "b", 5, 36)),
        Token("IDENTIFIER", "init", 5, 41)), Token("RIGHT_PAREN", ")", 5,
        44), <<Literal(Num(2))>>), Token("EQUAL_EQUAL", "==", 5, 47),
        Variable(Token("IDENTIFIER", "b", 5, 49)))),
        VarStmt(Token("IDENTIFIER", "c", 6, 5),
        Call(Variable(Token("IDENTIFIER", "C", 6, 9)), Token("RIGHT_PAREN",
        ")", 6, 11), <<>>)),
        PrintStmt(Binary(Call(Get(Variable(Token("IDENTIFIER", "c", 6, 20)),
        Token("IDENTIFIER", "init", 6, 25)), Token("RIGHT_PAREN", ")", 6,
        27), <<>>), Token("EQUAL_EQUAL", "==", 6, 30),
        Variable(Token("IDENTIFIER", "c", 6, 32)))),
        PrintStmt(Call(Get(Variable(Token("IDENTIFIER", "c", 6, 41)),
        Token("IDENTIFIER", "m", 6, 43)), Token("RIGHT_PAREN", ")", 6, 45),
        <<>>)),
        PrintStmt(Call(Variable(Token("IDENTIFIER", "D", 6, 54)),
        Token("RIGHT_PAREN", ")", 6, 56), <<>>))
    >>

\*   class A { }
\*   { var x = 1; class B < A { m() { return x; } } print B().m(); }
SrcSubclassMethod ==
    <<
        ClassStmt(Token("IDENTIFIER", "A", 1, 7), None, <<>>),
        BlockStmt(<<VarStmt(Token("IDENTIFIER", "x", 2, 7), Literal(Num(1))),
        ClassStmt(Token("IDENTIFIER", "B", 2, 20),
        Variable(Token("IDENTIFIER", "A", 2, 24)),
        <<FunctionStmt(Token("IDENTIFIER", "m", 2, 28), <<>>,
        <<ReturnStmt(Token("RETURN", "return", 2, 39),
        Variable(Token("IDENTIFIER", "x", 2, 41)))>>)>>),
        PrintStmt(Call(Get(Call(Variable(Token("IDENTIFIER", "B", 2, 54)),
        Token("RIGHT_PAREN", ")", 2, 56), <<>>), Token("IDENTIFIER", "m", 2,
        58)), Token("RIGHT_PAREN", ")", 2, 60), <<>>))>>)
    >>

\*   { var a = 1; { print a; } }
SrcStaleFirst ==
    <<
        BlockStmt(<<VarStmt(Token("IDENTIFIER", "a", 1, 7), Literal(Num(1))),
        BlockStmt(<<PrintStmt(Variable(Token("IDENTIFIER", "a", 1, 22)))>>)>>)
    >>

\*   var a = 2;     print a;
SrcStaleSecond ==
    <<
        VarStmt(Token("IDENTIFIER", "a", 1, 5), Literal(Num(2))),
        PrintStmt(Variable(Token("IDENTIFIER", "a", 1, 22)))
    >>

\*   print 1;
SrcLexError ==
    <<
        PrintStmt(Literal(Num(1)))
    >>

\*   { var a = 1; var a = 2; }
SrcResolveError ==
    <<
        BlockStmt(<<VarStmt(Token("IDENTIFIER", "a", 1, 7), Literal(Num(1))),
        VarStmt(Token("IDENTIFIER", "a", 1, 18), Literal(Num(2)))>>)
    >>

\*   print 1; print 1 + "a"; print 2;
SrcRuntimeError ==
    <<
        PrintStmt(Literal(Num(1))),
        PrintStmt(Binary(Literal(Num(1)), Token("PLUS", "+", 1, 18),
        Literal(Str("a")))),
        PrintStmt(Literal(Num(2)))
    >>

\*   print 3;
SrcOk ==
    <<
        PrintStmt(Literal(Num(3)))
    >>

\*   return 1;
SrcTopReturn ==
    <<
        ReturnStmt(Token("RETURN", "return", 1, 6), Literal(Num(1)))
    >>

\*   var a = 1; a = 2;
SrcAssign ==
    <<
        VarStmt(Token("IDENTIFIER", "a", 1, 5), Literal(Num(1))),
        ExprStmt(Assign(Token("IDENTIFIER", "a", 1, 12), Literal(Num(2))))
    >>

\*   fun makeCounter() { var i = 0; fun count() { i = i + 1; return i; } return count; }
\*   var c = makeCounter(); var d = makeCounter();
\*   print c(); print c(); print d();
SrcCounter ==
    <<
        FunctionStmt(Token("IDENTIFIER", "makeCounter", 1, 15), <<>>,
        <<VarStmt(Token("IDENTIFIER", "i", 1, 25), Literal(Num(0))),
        FunctionStmt(Token("IDENTIFIER", "count", 1, 40), <<>>,
        <<ExprStmt(Assign(Token("IDENTIFIER", "i", 1, 46),
        Binary(Variable(Token("IDENTIFIER", "i", 1, 50)), Token("PLUS", "+",
        1, 52), Literal(Num(1))))), ReturnStmt(Token("RETURN", "return", 1,
        62), Variable(Token("IDENTIFIER", "i", 1, 64)))>>),
        ReturnStmt(Token("RETURN", "return", 1, 74),
        Variable(Token("IDENTIFIER", "count", 1, 80)))>>),
        VarStmt(Token("IDENTIFIER", "c", 2, 5),
        Call(Variable(Token("IDENTIFIER", "makeCounter", 2, 19)),
        Token("RIGHT_PAREN", ")", 2, 21), <<>>)),
        VarStmt(Token("IDENTIFIER", "d", 2, 28),
        Call(Variable(Token("IDENTIFIER", "makeCounter", 2, 42)),
        Token("RIGHT_PAREN", ")", 2, 44), <<>>)),
        PrintStmt(Call(Variable(Token("IDENTIFIER", "c", 3, 7)),
        Token("RIGHT_PAREN", ")", 3, 9), <<>>)),
        PrintStmt(Call(Variable(Token("IDENTIFIER", "c", 3, 18)),
        Token("RIGHT_PAREN", ")", 3, 20), <<>>)),
        PrintStmt(Call(Variable(Token("IDENTIFIER", "d", 3, 29)),
        Token("RIGHT_PAREN", ")", 3, 31), <<>>))
    >>

\*   fun t(x) { print x; return x; }
\*   fun g(a, b) { return nil; }
\*   class K { }
\*   var i = K();
\*   print t(1) + t(2);
\*   print t(false) or t(3);
\*   print t(4) and t(5);
\*   t(g)(t(6), t(7));
\*   t(i).x = t(8);
SrcOrder ==
    <<
        FunctionStmt(Token("IDENTIFIER", "t", 1, 5), <<Token("IDENTIFIER",
        "x", 1, 7)>>, <<PrintStmt(Variable(Token("IDENTIFIER", "x", 1, 18))),
        ReturnStmt(Token("RETURN", "return", 1, 26),
        Variable(Token("IDENTIFIER", "x", 1, 28)))>>),
        FunctionStmt(Token("IDENTIFIER", "g", 2, 5), <<Token("IDENTIFIER",
        "a", 2, 7), Token("IDENTIFIER", "b", 2, 10)>>,
        <<ReturnStmt(Token("RETURN", "return", 2, 20), Literal(Nil))>>),
        ClassStmt(Token("IDENTIFIER", "K", 3, 7), None, <<>>),
        VarStmt(Token("IDENTIFIER", "i", 4, 5),
        Call(Variable(Token("IDENTIFIER", "K", 4, 9)), Token("RIGHT_PAREN",
        ")", 4, 11), <<>>)),
        PrintStmt(Binary(Call(Variable(Token("IDENTIFIER", "t", 5, 7)),
        Token("RIGHT_PAREN", ")", 5, 10), <<Literal(Num(1))>>), Token("PLUS",
        "+", 5, 12), Call(Variable(Token("IDENTIFIER", "t", 5, 14)),
        Token("RIGHT_PAREN", ")", 5, 17), <<Literal(Num(2))>>))),
        PrintStmt(Logical(Call(Variable(Token("IDENTIFIER", "t", 6, 7)),
        Token("RIGHT_PAREN", ")", 6, 14), <<Literal(Bool(FALSE))>>),
        Token("OR", "or", 6, 17), Call(Variable(Token("IDENTIFIER", "t", 6,
        19)), Token("RIGHT_PAREN", ")", 6, 22), <<Literal(Num(3))>>))),
        PrintStmt(Logical(Call(Variable(Token("IDENTIFIER", "t", 7, 7)),
        Token("RIGHT_PAREN", ")", 7, 10), <<Literal(Num(4))>>), Token("AND",
        "and", 7, 14), Call(Variable(Token("IDENTIFIER", "t", 7, 16)),
        Token("RIGHT_PAREN", ")", 7, 19), <<Literal(Num(5))>>))),
        ExprStmt(Call(Call(Variable(Token("IDENTIFIER", "t", 8, 1)),
        Token("RIGHT_PAREN", ")", 8, 4), <<Variable(Token("IDENTIFIER", "g",
        8, 3))>>), Token("RIGHT_PAREN", ")", 8, 16),
        <<Call(Variable(Token("IDENTIFIER", "t", 8, 6)), Token("RIGHT_PAREN",
        ")", 8, 9), <<Literal(Num(6))>>), Call(Variable(Token("IDENTIFIER",
        "t", 8, 12)), Token("RIGHT_PAREN", ")", 8, 15),
        <<Literal(Num(7))>>)>>)),
        ExprStmt(Set(Call(Variable(Token("IDENTIFIER", "t", 9, 1)),
        Token("RIGHT_PAREN", ")", 9, 4), <<Variable(Token("IDENTIFIER", "i",
        9, 3))>>), Token("IDENTIFIER", "x", 9, 6),
        Call(Variable(Token("IDENTIFIER", "t", 9, 10)), Token("RIGHT_PAREN",
        ")", 9, 13), <<Literal(Num(8))>>)))
    >>

\*   class A { n() { return 1; } m() { return 2; } who() { return this; } }
\*   class B < A { n() { return 3; } }
\*   var b = B();
\*   print b.n(); print b.m(); print b.who() == b;
\*   b.m = 7; print b.m;
\*   print b.zz; print 9;
SrcProperties ==
    <<
        ClassStmt(Token("IDENTIFIER", "A", 1, 7), None,
        <<FunctionStmt(Token("IDENTIFIER", "n", 1, 11), <<>>,
        <<ReturnStmt(Token("RETURN", "return", 1, 22), Literal(Num(1)))>>),
        FunctionStmt(Token("IDENTIFIER", "m", 1, 29), <<>>,
        <<ReturnStmt(Token("RETURN", "return", 1, 40), Literal(Num(2)))>>),
        FunctionStmt(Token("IDENTIFIER", "who", 1, 49), <<>>,
        <<ReturnStmt(Token("RETURN", "return", 1, 60), This(Token("THIS",
        "this", 1, 65)))>>)>>),
        ClassStmt(Token("IDENTIFIER", "B", 2, 7),
        Variable(Token("IDENTIFIER", "A", 2, 11)),
        <<FunctionStmt(Token("IDENTIFIER", "n", 2, 15), <<>>,
        <<ReturnStmt(Token("RETURN", "return", 2, 26), Literal(Num(3)))>>)>>),
        VarStmt(Token("IDENTIFIER", "b", 3, 5),
        Call(Variable(Token("IDENTIFIER", "B", 3, 9)), Token("RIGHT_PAREN",
        ")", 3, 11), <<>>)),
        PrintStmt(Call(Get(Variable(Token("IDENTIFIER", "b", 4, 7)),
        Token("IDENTIFIER", "n", 4, 9)), Token("RIGHT_PAREN", ")", 4, 11),
        <<>>)),
        PrintStmt(Call(Get(Variable(Token("IDENTIFIER", "b", 4, 20)),
        Token("IDENTIFIER", "m", 4, 22)), Token("RIGHT_PAREN", ")", 4, 24),
        <<>>)),
        PrintStmt(Binary(Call(Get(Variable(Token("IDENTIFIER", "b", 4, 33)),
        Token("IDENTIFIER", "who", 4, 37)), Token("RIGHT_PAREN", ")", 4, 39),
        <<>>), Token("EQUAL_EQUAL", "==", 4, 42),
        Variable(Token("IDENTIFIER", "b", 4, 44)))),
        ExprStmt(Set(Variable(Token("IDENTIFIER", "b", 5, 1)),
        Token("IDENTIFIER", "m", 5, 3), Literal(Num(7)))),
        PrintStmt(Get(Variable(Token("IDENTIFIER", "b", 5, 16)),
        Token("IDENTIFIER", "m", 5, 18))),
        PrintStmt(Get(Variable(Token("IDENTIFIER", "b", 6, 7)),
        Token("IDENTIFIER", "zz", 6, 10))),
        PrintStmt(Literal(Num(9)))
    >>

\*   class A { n() { return 1; } }
\*   print A.n; print 9;
SrcNonInstance ==
    <<
        ClassStmt(Token("IDENTIFIER", "A", 1, 7), None,
        <<FunctionStmt(Token("IDENTIFIER", "n", 1, 11), <<>>,
        <<ReturnStmt(Token("RETURN", "return", 1, 22), Literal(Num(1)))>>)>>),
        PrintStmt(Get(Variable(Token("IDENTIFIER", "A", 2, 7)),
        Token("IDENTIFIER", "n", 2, 9))),
        PrintStmt(Literal(Num(9)))
    >>

\*   print 1 / 0; print 2;
SrcDivision ==
    <<
        PrintStmt(Binary(Literal(Num(1)), Token("SLASH", "/", 1, 9),
        Literal(Num(0)))),
        PrintStmt(Literal(Num(2)))
    >>

\* print 1; @        (the Lexer reports '@' and goes on; SrcLexError is what
\*                    the Parser makes of the remaining tokens)
\* print ;           (the Parser reports "Expect expression."; declaration()
\*                    returns None for the statement)
\* print "abc        (unterminated string)
Input(src, statements, lexer, parser_errors) ==
    [src |-> src, statements |-> statements, lexer |-> lexer,
     parser_errors |-> parser_errors]

Inputs ==
    { Input("Blocks", SrcBlocks, "ok", 0),
      Input("Calls", SrcCalls, "ok", 0),
      Input("NestedReturn", SrcNestedReturn, "ok", 0),
      Input("Classes", SrcClasses, "ok", 0),
      Input("SubclassMethod", SrcSubclassMethod, "ok", 0),
      Input("StaleFirst", SrcStaleFirst, "ok", 0),
      Input("StaleSecond", SrcStaleSecond, "ok", 0),
      Input("LexError", SrcLexError, "char", 0),
      Input("ParseError", << None >>, "ok", 1),
      Input("ResolveError", SrcResolveError, "ok", 0),
      Input("RuntimeError", SrcRuntimeError, "ok", 0),
      Input("Ok", SrcOk, "ok", 0),
      Input("TopReturn", SrcTopReturn, "ok", 0),
      Input("Assign", SrcAssign, "ok", 0),
      Input("Unterminated", << >>, "string", 0) }

\* ---------------------------------------------------------------------
\* The driver: Lox (pylox.py) and LoxRepl (repl.py).
\* ---------------------------------------------------------------------
VARIABLES
    script,       \* the file named on the command line, None without one
    pc,           \* where the driver is: "idle", "parsed", "interpret",
                  \* "file_done", "exited", "crashed"
    lox,          \* the Lox object: had_error, had_runtime_error
    interpreter,  \* the Interpreter of the Lox object
    statements,   \* the statements of the input being run
    next,         \* index of the next top-level statement of interpret
    lines,        \* number of inputs read so far
    run,          \* what happened to the input being run (observation)
    history,      \* the run records of the earlier inputs of this session
    exit_code     \* the process exit code (-1 while running)

vars == << script, pc, lox, interpreter, statements, next, lines, run,
           history, exit_code >>

\* Lox.__init__
LoxInit == [had_error |-> FALSE, had_runtime_error |-> FALSE]

\* Lox.report
Lox_report(l) == [l EXCEPT !.had_error = TRUE]

RunInit ==
    [src |-> "", clean |-> TRUE, lexer_had_error |-> FALSE,
     parser_had_error |-> FALSE, resolver_errors |-> 0, recorded |-> {},
     locals_before |-> EmptyDict, entered |-> FALSE, executed |-> 0,
     length |-> 0, rt_reports |-> 0, outcome |-> "none", message |-> "",
     parser |-> ParserInit(<< >>), lexer |-> LexerInit(<< >>),
     tokens |-> << >>,
     resolver |-> [depth |-> 0, current_function |-> "NONE",
                   current_class |-> "NONE", visits |-> {}],
     op |-> None]

\* __main__.main: Lox().run_file(sys.argv[1]) with an argument, the REPL
\* without.
mode == IF script = None THEN "repl" ELSE "file"

Init ==
    /\ script \in Inputs \cup {None}
    /\ pc = "idle"
    /\ lox = LoxInit
    /\ interpreter = InterpreterInit
    /\ statements = << >>
    /\ next = 1
    /\ lines = 0
    /\ run = RunInit
    /\ history = << >>
    /\ exit_code = -1

\* Where control goes when Lox.run returns: to the exit code of run_file,
\* or back to the prompt of the REPL.  An uncaught Python exception ends
\* the process with a traceback and exit status 1.
AfterRun == IF mode = "file" THEN "file_done" ELSE "idle"

\* Lox.run, up to `if parser.had_error: return`.  The Parser pulls the
\* tokens from the Lexer; Lexer.error sets the Lexer's own had_error;
\* scan_string_literal calls self.error without its message (TypeError);
\* Parser.error sets the Parser's had_error and calls Lox.error_at.
Run(input) ==
    /\ pc = "idle"
    /\ lines < (IF mode = "file" THEN 1 ELSE MaxLines)
    /\ mode = "file" => input = script
    /\ lines' = lines + 1
    /\ history' = IF lines = 0 THEN << >> ELSE Append(history, run)
    /\ statements' = input.statements
    /\ next' = 1
    /\ interpreter' = ClearTrace(interpreter)
    /\ LET r0 == [RunInit EXCEPT !.src = input.src,
                      !.clean = (input.lexer = "ok" /\ input.parser_errors = 0),
                      !.lexer_had_error = (input.lexer # "ok"),
                      !.parser_had_error = (input.parser_errors > 0),
                      !.locals_before = interpreter.locals,
                      !.length = Len(input.statements)]
       IN  IF input.lexer = "string"
           THEN /\ pc' = "crashed"
                /\ exit_code' = 1
                /\ lox' = lox
                /\ run' = [r0 EXCEPT !.outcome = "crash"]
           ELSE IF input.parser_errors > 0
           THEN /\ pc' = AfterRun
                /\ lox' = Lox_report(lox)
                /\ run' = [r0 EXCEPT !.outcome = "returned"]
                /\ UNCHANGED exit_code
           ELSE /\ pc' = "parsed"
                /\ run' = r0
                /\ UNCHANGED << lox, exit_code >>
    /\ UNCHANGED script

\* Lox.run: resolver = Resolver(self.interpreter);
\* resolver.resolve(statements); if self.had_error: return
Resolve ==
    /\ pc = "parsed"
    /\ LET rs == ResolveAll(statements, 1,
                            ResolverInit(interpreter.locals, lox.had_error))
           r1 == [run EXCEPT !.resolver_errors = rs.errors,
                             !.recorded = rs.recorded,
                             !.resolver =
                                 [depth |-> Len(rs.scopes),
                                  current_function |-> rs.current_function,
                                  current_class |-> rs.current_class,
                                  visits |-> rs.visits],
                             !.clean = @ /\ rs.errors = 0 /\ ~rs.crash]
       IN  /\ interpreter' = [interpreter EXCEPT !.locals = rs.locals]
           /\ lox' = [lox EXCEPT !.had_error = rs.had_error]
           /\ IF rs.crash
              THEN /\ pc' = "crashed"
                   /\ exit_code' = 1
                   /\ run' = [r1 EXCEPT !.outcome = "crash"]
              ELSE IF rs.had_error
              THEN /\ pc' = AfterRun
                   /\ run' = [r1 EXCEPT !.outcome = "returned"]
                   /\ UNCHANGED exit_code
              ELSE /\ pc' = "interpret"
                   /\ run' = [r1 EXCEPT !.entered = TRUE]
                   /\ UNCHANGED exit_code
    /\ UNCHANGED << script, statements, next, lines, history >>

\* Lox.runtime_error without the assignment to had_runtime_error.
ReportOnly(l) == l

\* Lox.runtime_error: print the message and the line, set the flag.
Lox_runtime_error(l) == [l EXCEPT !.had_runtime_error = TRUE]

\* Interpreter.interpret, one top-level statement of the loop:
\* self.execute(stmt), and the except clause around the loop.  A
\* ReturnException reaching interpret is a LoxRuntimeError without
\* token.loc: Lox.runtime_error fails on it (AttributeError).
Execute ==
    /\ pc = "interpret"
    /\ next <= Len(statements)
    /\ LET r == execute(statements[next], interpreter)
       IN  /\ interpreter' = r.st
           /\ IF r.sig = "ok"
              THEN /\ next' = next + 1
                   /\ run' = [run EXCEPT !.executed = @ + 1]
                   /\ UNCHANGED << pc, lox, exit_code >>
              ELSE IF r.sig = "error"
              THEN /\ lox' = Lox_runtime_error(lox)
                   /\ run' = [run EXCEPT !.rt_reports = @ + 1,
                                         !.outcome = "runtime_error",
                                         !.message = r.val.v]
                   /\ pc' = AfterRun
                   /\ UNCHANGED << next, exit_code >>
              ELSE /\ pc' = "crashed"
                   /\ exit_code' = 1
                   /\ run' = [run EXCEPT !.outcome = "crash"]
                   /\ UNCHANGED << next, lox >>
    /\ UNCHANGED << script, statements, lines, history >>

\* Interpreter.interpret: the loop is over, Lox.run returns.
InterpretDone ==
    /\ pc = "interpret"
    /\ next > Len(statements)
    /\ pc' = AfterRun
    /\ run' = [run EXCEPT !.outcome = "done"]
    /\ UNCHANGED << script, lox, interpreter, statements, next, lines,
                    history, exit_code >>

\* Lox.run_file after self.run(f.read()): sys.exit(65), sys.exit(70), or
\* the end of the script.
ExitCode(l) ==
    IF l.had_error THEN 65 ELSE IF l.had_runtime_error THEN 70 ELSE 0

RunFileExit ==
    /\ pc = "file_done"
    /\ exit_code' = ExitCode(lox)
    /\ pc' = "exited"
    /\ UNCHANGED << script, lox, interpreter, statements, next, lines, run,
                    history >>

\* LoxRepl.do_reset: self.lox = Lox()
Reset ==
    /\ mode = "repl"
    /\ pc = "idle"
    /\ lines > 0
    /\ lox' = LoxInit
    /\ interpreter' = InterpreterInit
    /\ run' = RunInit
    /\ history' = << >>
    /\ lines' = 0
    /\ UNCHANGED << script, pc, statements, next, exit_code >>

Next ==
    \/ \E input \in Inputs : Run(input)
    \/ Resolve
    \/ Execute
    \/ InterpretDone
    \/ RunFileExit
    \/ Reset

Spec == Init /\ [][Next]_vars

\* ---------------------------------------------------------------------
\* Scripts.  A second family of inputs, each run as a file
\* (Lox().run_file): whole programs, and later the programs built around
\* one operator or one call for every choice of operands.  `case` says
\* what the script was built from.
\* ---------------------------------------------------------------------
Script(src, program, case) ==
    [src |-> src, statements |-> program, lexer |-> "ok",
     parser_errors |-> 0, case |-> case]

Programs ==
    { Script("Counter", SrcCounter, None),
      Script("Order", SrcOrder, None),
      Script("Properties", SrcProperties, None),
      Script("NonInstance", SrcNonInstance, None),
      Script("Division", SrcDivision, None) }

\* The declarations every operator script starts with:
\*   fun t(x) { print x; return x; }
\*   fun f() { }
\*   class K { }
\*   var i = K();
Prelude ==
    <<
        FunctionStmt(Token("IDENTIFIER", "t", 1, 5), <<Token("IDENTIFIER",
        "x", 1, 7)>>, <<PrintStmt(Variable(Token("IDENTIFIER", "x", 1, 18))),
        ReturnStmt(Token("RETURN", "return", 1, 26),
        Variable(Token("IDENTIFIER", "x", 1, 28)))>>),
        FunctionStmt(Token("IDENTIFIER", "f", 2, 5), <<>>, <<>>),
        ClassStmt(Token("IDENTIFIER", "K", 3, 7), None, <<>>),
        VarStmt(Token("IDENTIFIER", "i", 4, 5),
        Call(Variable(Token("IDENTIFIER", "K", 4, 9)), Token("RIGHT_PAREN",
        ")", 4, 11), <<>>))
    >>

\* The operands of the operator scripts, by their source text: the
\* literals of every type and the names the prelude declares.
Operands == {"nil", "true", "false", "0", "1", "\"\"", "\"a\"", "f", "K", "i"}

\* Parser.primary for an operand alone on line `row`.
Operand(o, row) ==
    CASE o = "nil" -> Literal(Nil)
      [] o = "true" -> Literal(Bool(TRUE))
      [] o = "false" -> Literal(Bool(FALSE))
      [] o = "0" -> Literal(Num(0))
      [] o = "1" -> Literal(Num(1))
      [] o = "\"\"" -> Literal(Str(""))
      [] o = "\"a\"" -> Literal(Str("a"))
      [] OTHER -> Variable(Token("IDENTIFIER", o, row, 1))

\* The binary operators of Parser.equality, comparison, term and factor,
\* as the Lexer's token type, lexeme and length.
BinaryOperators ==
    { << "BANG_EQUAL", "!=", 2 >>, << "EQUAL_EQUAL", "==", 2 >>,
      << "GREATER", ">", 1 >>, << "GREATER_EQUAL", ">=", 2 >>,
      << "LESS", "<", 1 >>, << "LESS_EQUAL", "<=", 2 >>,
      << "MINUS", "-", 1 >>, << "PLUS", "+", 1 >>,
      << "SLASH", "/", 1 >>, << "STAR", "*", 1 >> }

\* The logical operators of Parser.logic_or and logic_and.
LogicalOperators == { << "OR", "or", 2 >>, << "AND", "and", 3 >> }

\* The prelude followed by (one token group per line, from line 5 on)
\*   print / a / op / b / ;
SrcBinary(a, op, b) ==
    Prelude \o
    << PrintStmt(Binary(Operand(a, 6), Token(op[1], op[2], 7, op[3]),
                        Operand(b, 8))) >>

\* The prelude followed by
\*   print / a / op t( / b / );
SrcLogical(a, op, b) ==
    Prelude \o
    << PrintStmt(Logical(Operand(a, 6), Token(op[1], op[2], 7, op[3]),
                         Call(Variable(Token("IDENTIFIER", "t", 7, op[3] + 2)),
                              Token("RIGHT_PAREN", ")", 9, 1),
                              << Operand(b, 8) >>))) >>

\* What an operator script was built from.
Case(a, op, b) == [a |-> a, op |-> op[1], b |-> b]

BinaryScripts ==
    { Script("Binary", SrcBinary(a, op, b), Case(a, op, b)) :
        a \in Operands, op \in BinaryOperators, b \in Operands }

LogicalScripts ==
    { Script("Logical", SrcLogical(a, op, b), Case(a, op, b)) :
        a \in Operands, op \in LogicalOperators, b \in Operands }

\* The equality operators of Parser.equality.
EqualityOperators == { op \in BinaryOperators : op[1] \in {"EQUAL_EQUAL", "BANG_EQUAL"} }

\* The prelude followed by
\*   print / a / op / b / ; / print / b / op / a / ;
SrcEquality(a, op, b) ==
    Prelude \o
    << PrintStmt(Binary(Operand(a, 6), Token(op[1], op[2], 7, op[3]),
                        Operand(b, 8))),
       PrintStmt(Binary(Operand(b, 11), Token(op[1], op[2], 12, op[3]),
                        Operand(a, 13))) >>

EqualityScripts ==
    { Script("Equality", SrcEquality(a, op, b), Case(a, op, b)) :
        a \in Operands, op \in EqualityOperators, b \in Operands }

\* The declarations every call script starts with:
\*   fun f0() { print "f0"; }
\*   fun f1(a) { print "f1"; }
\*   fun f2(a, b) { print "f2"; }
\*   class C0 { }
\*   class C1 { init(a) { print "C1"; } }
\*   class D1 < C1 { }
CallPrelude ==
    <<
        FunctionStmt(Token("IDENTIFIER", "f0", 1, 6), <<>>,
        <<PrintStmt(Literal(Str("f0")))>>),
        FunctionStmt(Token("IDENTIFIER", "f1", 2, 6), <<Token("IDENTIFIER",
        "a", 2, 8)>>, <<PrintStmt(Literal(Str("f1")))>>),
        FunctionStmt(Token("IDENTIFIER", "f2", 3, 6), <<Token("IDENTIFIER",
        "a", 3, 8), Token("IDENTIFIER", "b", 3, 11)>>,
        <<PrintStmt(Literal(Str("f2")))>>),
        ClassStmt(Token("IDENTIFIER", "C0", 4, 8), None, <<>>),
        ClassStmt(Token("IDENTIFIER", "C1", 5, 8), None,
        <<FunctionStmt(Token("IDENTIFIER", "init", 5, 15),
        <<Token("IDENTIFIER", "a", 5, 17)>>,
        <<PrintStmt(Literal(Str("C1")))>>)>>),
        ClassStmt(Token("IDENTIFIER", "D1", 6, 8),
        Variable(Token("IDENTIFIER", "C1", 6, 13)), <<>>)
    >>

\* The callees of the call scripts: the functions and classes of the
\* prelude and the native clock.
Callees == {"f0", "f1", "f2", "C0", "C1", "D1", "clock"}

\* The prelude followed by
\*   callee / ( / 1, ..., n / );
SrcCall(callee, n) ==
    CallPrelude \o
    << ExprStmt(Call(Variable(Token("IDENTIFIER", callee, 7,
                                    IF callee = "clock" THEN 5 ELSE 2)),
                     Token("RIGHT_PAREN", ")", 10, 1),
                     [k \in 1..n |-> Literal(Num(k))])) >>

CallScripts ==
    { Script("Call", SrcCall(callee, n), [callee |-> callee, n |-> n]) :
        callee \in Callees, n \in 0..MaxArguments }

\* Two declarations: d declares `name` as a variable, a function or a
\* class.
Declaration(kind, name, col) ==
    CASE kind = "var" -> VarStmt(Token("IDENTIFIER", name, 1, col), None)
      [] kind = "fun" -> FunctionStmt(Token("IDENTIFIER", name, 1, col), << >>, << >>)
      [] kind = "class" -> ClassStmt(Token("IDENTIFIER", name, 1, col), None, << >>)

DeclarationKinds == {"var", "fun", "class"}

\* The first declares a, the second b: both at top level, both in one
\* block, the second in a block inside the block of the first, the
\* first a parameter and the second in the body of its function, or
\* both parameters of one function.
SrcDeclare(c) ==
    CASE c.place = "global" ->
            << Declaration(c.first, c.a, 1), Declaration(c.second, c.b, 2) >>
      [] c.place = "block" ->
            << BlockStmt(<< Declaration(c.first, c.a, 1),
                            Declaration(c.second, c.b, 2) >>) >>
      [] c.place = "nested" ->
            << BlockStmt(<< Declaration(c.first, c.a, 1),
                            BlockStmt(<< Declaration(c.second, c.b, 2) >>) >>) >>
      [] c.place = "function" ->
            << FunctionStmt(Token("IDENTIFIER", "f", 1, 0),
                            << Token("IDENTIFIER", c.a, 1, 1) >>,
                            << Declaration(c.second, c.b, 2) >>) >>
      [] c.place = "parameters" ->
            << FunctionStmt(Token("IDENTIFIER", "f", 1, 0),
                            << Token("IDENTIFIER", c.a, 1, 1),
                               Token("IDENTIFIER", c.b, 1, 2) >>,
                            << >>) >>

DeclareCases ==
    [place : {"global", "block", "nested"}, first : DeclarationKinds,
     second : DeclarationKinds, a : {"a"}, b : {"a", "b"}]
    \cup [place : {"function"}, first : {"parameter"},
          second : DeclarationKinds, a : {"a"}, b : {"a", "b"}]
    \cup [place : {"parameters"}, first : {"parameter"},
          second : {"parameter"}, a : {"a"}, b : {"a", "b"}]

DeclareScripts == { Script("Declare", SrcDeclare(c), c) : c \in DeclareCases }

\* A return statement, bare or with a value.
Return(value) ==
    ReturnStmt(Token("RETURN", "return", 1, 6),
               IF value THEN Literal(Num(1)) ELSE None)

Named(name) == Token("IDENTIFIER", name, 1, 0)

\* The return at top level, in a block at top level, in a function, in a
\* method, in an initializer, in a function declared inside an
\* initializer, or in a function declared after a class.
SrcReturn(c) ==
    CASE c.place = "top" -> << Return(c.value) >>
      [] c.place = "block" -> << BlockStmt(<< Return(c.value) >>) >>
      [] c.place = "function" ->
            << FunctionStmt(Named("f"), << >>, << Return(c.value) >>) >>
      [] c.place = "method" ->
            << ClassStmt(Named("K"), None,
                         << FunctionStmt(Named("m"), << >>, << Return(c.value) >>) >>) >>
      [] c.place = "initializer" ->
            << ClassStmt(Named("K"), None,
                         << FunctionStmt(Named("init"), << >>, << Return(c.value) >>) >>) >>
      [] c.place = "nested" ->
            << ClassStmt(Named("K"), None,
                         << FunctionStmt(Named("init"), << >>,
                                << FunctionStmt(Named("g"), << >>,
                                                << Return(c.value) >>) >>) >>) >>
      [] c.place = "after" ->
            << ClassStmt(Named("K"), None,
                         << FunctionStmt(Named("init"), << >>, << >>) >>),
               FunctionStmt(Named("f"), << >>, << Return(c.value) >>) >>

ReturnCases ==
    [place : {"top", "block", "function", "method", "initializer", "nested",
              "after"},
     value : BOOLEAN]

ReturnScripts == { Script("Return", SrcReturn(c), c) : c \in ReturnCases }

\* class A { m() { print this; } }     (or class A { })
\* class B < A { t() { super.m(); } }
\* B().t();
SrcSuper(has_m) ==
    << ClassStmt(Token("IDENTIFIER", "A", 1, 7), None,
                 IF has_m
                 THEN << FunctionStmt(Token("IDENTIFIER", "m", 1, 11), << >>,
                            << PrintStmt(This(Token("THIS", "this", 1, 26))) >>) >>
                 ELSE << >>),
       ClassStmt(Token("IDENTIFIER", "B", 2, 7),
                 Variable(Token("IDENTIFIER", "A", 2, 11)),
                 << FunctionStmt(Token("IDENTIFIER", "t", 2, 15), << >>,
                        << ExprStmt(Call(Super(Token("SUPER", "super", 2, 25),
                                               Token("IDENTIFIER", "m", 2, 27)),
                                         Token("RIGHT_PAREN", ")", 2, 29),
                                         << >>)) >>) >>),
       ExprStmt(Call(Get(Call(Variable(Token("IDENTIFIER", "B", 3, 1)),
                              Token("RIGHT_PAREN", ")", 3, 3), << >>),
                         Token("IDENTIFIER", "t", 3, 5)),
                     Token("RIGHT_PAREN", ")", 3, 7), << >>)) >>

SuperScripts ==
    { Script("Super", SrcSuper(has_m), [has_m |-> has_m]) : has_m \in BOOLEAN }

MethodNames == << "m", "k", "j", "h" >>

\* The declaration of class B with n methods and the superclass named:
\* none, the class A, the number n, or u that nobody declares.
ClassB(superclass, n) ==
    ClassStmt(Token("IDENTIFIER", "B", 3, 9),
              IF superclass = "none" THEN None
              ELSE Variable(Token("IDENTIFIER", superclass, 3, 13)),
              [i \in 1..n |->
                  FunctionStmt(Token("IDENTIFIER", MethodNames[i], 3, 15 + i),
                               << >>, << >>)])

PrintB == PrintStmt(Variable(Token("IDENTIFIER", "B", 4, 7)))

\* class A { }  var n = 1;  then the declaration of B and `print B;`, at
\* top level or in a block.
SrcClass(c) ==
    << ClassStmt(Token("IDENTIFIER", "A", 1, 7), None, << >>),
       VarStmt(Token("IDENTIFIER", "n", 2, 5), Literal(Num(1))) >>
    \o IF c.place = "global" THEN << ClassB(c.superclass, c.methods), PrintB >>
       ELSE << BlockStmt(<< ClassB(c.superclass, c.methods), PrintB >>) >>

ClassCases ==
    [superclass : {"none", "A", "n", "u"}, place : {"global", "block"},
     methods : 0..MaxMethods]

ClassScripts == { Script("Class", SrcClass(c), c) : c \in ClassCases }

Scripts ==
    Programs \cup BinaryScripts \cup LogicalScripts \cup EqualityScripts
             \cup CallScripts \cup DeclareScripts \cup ReturnScripts
             \cup SuperScripts \cup ClassScripts

\* __main__.main with a script: Lox().run_file(sys.argv[1])
InitScript ==
    /\ script \in Scripts
    /\ pc = "idle"
    /\ lox = LoxInit
    /\ interpreter = InterpreterInit
    /\ statements = << >>
    /\ next = 1
    /\ lines = 0
    /\ run = RunInit
    /\ history = << >>
    /\ exit_code = -1

NextScript ==
    \/ Run(script)
    \/ Resolve
    \/ Execute
    \/ InterpretDone
    \/ RunFileExit

SpecScript == InitScript /\ [][NextScript]_vars

\* ---------------------------------------------------------------------
\* Token scripts.  A third family of inputs, for the Parser alone: each is
\* a source text of words separated by single blanks on one line, handed
\* to Parser.parse as the tokens the Lexer makes of it.
\* ---------------------------------------------------------------------

\* Lexer: the token type of a word.
LexemeType(word) ==
    CASE word = "(" -> "LEFT_PAREN"
      [] word = ")" -> "RIGHT_PAREN"
      [] word = "{" -> "LEFT_BRACE"
      [] word = "}" -> "RIGHT_BRACE"
      [] word = "+" -> "PLUS"
      [] word = ";" -> "SEMICOLON"
      [] word = "=" -> "EQUAL"
      [] word = "class" -> "CLASS"
      [] word = "for" -> "FOR"
      [] word = "fun" -> "FUN"
      [] word = "if" -> "IF"
      [] word = "print" -> "PRINT"
      [] word = "return" -> "RETURN"
      [] word = "var" -> "VAR"
      [] word = "while" -> "WHILE"
      [] word = "false" -> "FALSE"
      [] word = "true" -> "TRUE"
      [] word \in {"0", "1", "9"} -> "NUMBER"
      [] OTHER -> "IDENTIFIER"

\* Lexer: the column of the last character of the i-th word.
RECURSIVE Column(_, _)
Column(words, i) ==
    IF i = 0 THEN -1 ELSE Column(words, i - 1) + 1 + Len(words[i])

\* Lexer.__iter__: the tokens of the words, and EOF at the place of the
\* last character read.
Tokens(words) ==
    [i \in 1..Len(words) + 1 |->
        IF i <= Len(words)
        THEN Token(LexemeType(words[i]), words[i], 1, Column(words, i))
        ELSE Token("EOF", "", 1, IF words = << >> THEN 0
                                 ELSE Column(words, Len(words)))]

\* Declarations broken off before their end.
Broken ==
    { << "var", "a", "=" >>, << "print" >>, << "var" >>,
      << "print", "(", "1" >>, << "1", "+" >>, << "fun", "(" >>, << "if" >> }

\* Stray tokens: none of them a `;` or a keyword that starts a statement.
JunkWords == {")", "+", "=", "}"}

Junk == UNION { [1..n -> JunkWords] : n \in 0..MaxJunk }

\* Well-formed declarations, one for every keyword synchronize stops at,
\* an expression statement and a block.
Following ==
    { << "class", "K", "{", "}" >>,
      << "fun", "f", "(", ")", "{", "}" >>,
      << "var", "b", "=", "1", ";" >>,
      << "for", "(", ";", ";", ")", "print", "1", ";" >>,
      << "if", "(", "a", ")", "print", "1", ";" >>,
      << "while", "(", "a", ")", "print", "1", ";" >>,
      << "print", "1", ";" >>,
      << "return", "1", ";" >>,
      << "a", "=", "1", ";" >>,
      << "{", "print", "1", ";", "}" >> }

\* A broken declaration, stray tokens, a `;` or none, and one or two
\* well-formed declarations.
RecoveryScripts ==
    { [src |-> "Tokens", words |-> b \o j \o s \o f \o g,
       case |-> [broken |-> b, following |-> f]] :
        b \in Broken, j \in Junk, s \in {<< >>, << ";" >>},
        f \in Following, g \in {<< >>, << "print", "0", ";" >>} }

\* The words of the short token streams: the keywords that start a
\* declaration or a statement, an identifier, and the punctuation that
\* ends statements and blocks.
StreamWords == {"var", "a", "=", ";", "print", "{", "}", "return", "class"}

\* Every stream of at most MaxTokens of these words, the empty one
\* included.
StreamScripts ==
    { [src |-> "Tokens", words |-> w, case |-> [broken |-> << >>, following |-> << >>]] :
        w \in UNION { [1..n -> StreamWords] : n \in 0..MaxTokens } }

TokenScripts == RecoveryScripts \cup StreamScripts

InitParse ==
    /\ script \in TokenScripts
    /\ pc = "idle"
    /\ lox = LoxInit
    /\ interpreter = InterpreterInit
    /\ statements = << >>
    /\ next = 1
    /\ lines = 0
    /\ run = RunInit
    /\ history = << >>
    /\ exit_code = -1

\* Lox.run up to `if parser.had_error: return`: the statements returned,
\* or the Python exception that ends the process.
ParseResult(r) ==
    /\ run' = [RunInit EXCEPT !.src = script.src,
                              !.clean = (r.sig = "ok" /\ ~r.p.had_error),
                              !.parser = r.p,
                              !.parser_had_error = r.p.had_error,
                              !.length = IF r.sig = "ok" THEN Len(r.val) ELSE 0,
                              !.outcome = IF r.sig # "ok" THEN "crash"
                                          ELSE IF r.p.had_error THEN "returned"
                                          ELSE "none"]
    /\ statements' = IF r.sig = "ok" THEN r.val ELSE << >>
    /\ lox' = [lox EXCEPT !.had_error = @ \/ r.p.had_error]
    /\ pc' = IF r.sig # "ok" THEN "crashed"
             ELSE IF r.p.had_error THEN AfterRun
             ELSE "parsed"
    /\ exit_code' = IF r.sig = "ok" THEN exit_code ELSE 1

Parse ==
    /\ pc = "idle"
    /\ ParseResult(parse(ParserInit(Tokens(script.words))))
    /\ UNCHANGED << script, interpreter, next, lines, history >>

NextParse == Parse

SpecParse == InitParse /\ [][NextParse]_vars

\* ---------------------------------------------------------------------
\* For loops: scripts given as words and run through the whole of
\* Lox.run_file.  Each declares a global i, runs one for loop and
\* prints i after it.  `u` is a variable nobody declares: reading it
\* raises the runtime error that ends a loop whose condition is true
\* (no loop of these scripts assigns, see Resolver.resolve).
\* ---------------------------------------------------------------------
ForInitializers == { << ";" >>, << "var", "i", "=", "0", ";" >>, << "1", ";" >> }

ForConditions == { << >>, << "false" >>, << "true" >> }

ForIncrements == { << >>, << "u" >> }

ForBodies ==
    { << "print", "i", ";" >>, << "u", ";" >>, << "{", "print", "i", ";", "}" >> }

ForClauses ==
    [initializer : ForInitializers, condition : ForConditions,
     increment : ForIncrements, body : ForBodies]

\* The loop comes to an end: its condition is false, or its body or
\* its increment reads u.
ForEnds(c) ==
    \/ c.condition = << "false" >>
    \/ c.increment = << "u" >>
    \/ c.body = << "u", ";" >>

ForWords(c) ==
    << "var", "i", "=", "9", ";", "for", "(" >> \o c.initializer
        \o c.condition \o << ";" >> \o c.increment \o << ")" >> \o c.body
        \o << "print", "i", ";" >>

ForScripts ==
    { [src |-> "For", words |-> ForWords(c), case |-> c] :
        c \in { d \in ForClauses : ForEnds(d) } }

InitSource ==
    /\ script \in ForScripts
    /\ pc = "idle"
    /\ lox = LoxInit
    /\ interpreter = InterpreterInit
    /\ statements = << >>
    /\ next = 1
    /\ lines = 0
    /\ run = RunInit
    /\ history = << >>
    /\ exit_code = -1

\* Lox.run_file on a script: Lox.run (parse, resolve, interpret), then
\* the exit code.
NextSource ==
    \/ Parse
    \/ Resolve
    \/ Execute
    \/ InterpretDone
    \/ RunFileExit

SpecSource == InitSource /\ [][NextSource]_vars

\* ---------------------------------------------------------------------
\* Character scripts: every source of at most MaxChars characters over
\* letters (`or` is a keyword), a digit, the point, the quote, the
\* slash, `=`, blank, newline and a character Lox does not have.  The
\* tokens are pulled from the Lexer one by one, as the Parser's Peekable
\* does with next().
\* ---------------------------------------------------------------------
Alphabet == {"o", "r", "1", ".", "\"", "/", "=", " ", "\n", "@"}

CharScripts ==
    { [src |-> "Chars", chars |-> c] :
        c \in UNION { [1..n -> Alphabet] : n \in 0..MaxChars } }

InitLex ==
    /\ script \in CharScripts
    /\ pc = "idle"
    /\ lox = LoxInit
    /\ interpreter = InterpreterInit
    /\ statements = << >>
    /\ next = 1
    /\ lines = 0
    /\ run = RunInit
    /\ history = << >>
    /\ exit_code = -1

\* Lox.run: lexer = Lexer(self, StringIO(code))
Lex ==
    /\ pc = "idle"
    /\ run' = [RunInit EXCEPT !.src = script.src, !.lexer = LexerInit(script.chars)]
    /\ pc' = "lexing"
    /\ UNCHANGED << script, lox, interpreter, statements, next, lines,
                    history, exit_code >>

\* The token, or the exception, of one call of next_token.
Lexer_next_token(r) ==
    /\ run' = [run EXCEPT !.lexer = r.lx,
                          !.lexer_had_error = r.lx.had_error,
                          !.tokens = IF r.sig = "ok" THEN Append(@, r.val) ELSE @,
                          !.outcome = IF r.sig = "ok" THEN @ ELSE "crash"]
    /\ pc' = IF r.sig = "ok" THEN "lexing" ELSE "crashed"
    /\ exit_code' = IF r.sig = "ok" THEN exit_code ELSE 1

\* Lexer.__next__: StopIteration once exhausted, next_token otherwise.
Lexer_next ==
    /\ pc = "lexing"
    /\ IF run.lexer.exhausted
       THEN /\ pc' = "stopped"
            /\ UNCHANGED << run, exit_code >>
       ELSE Lexer_next_token(next_token(run.lexer))
    /\ UNCHANGED << script, lox, interpreter, statements, next, lines, history >>

NextLex ==
    \/ Lex
    \/ Lexer_next

SpecLex == InitLex /\ [][NextLex]_vars

\* ---------------------------------------------------------------------
\* Environments: chains of at most MaxFrames frames, the global frame
\* first, each binding some of the names a and b; one call of
\* Environment.assign or Environment.define is made on a frame of the
\* chain (the frames after it are its descendants, not on its chain).
\* ---------------------------------------------------------------------
EnvNames == {"a", "b"}

Bindings == UNION { [names -> {Num(0)}] : names \in SUBSET EnvNames }

Chains ==
    UNION { { [i \in 1..n |->
                  [values |-> IF i = 1 THEN ("clock" :> ClockV) @@ b[i] ELSE b[i],
                   enclosing |-> i - 1]] : b \in [1..n -> Bindings] } :
            n \in 1..MaxFrames }

InitEnv ==
    /\ script = None
    /\ pc = "idle"
    /\ lox = LoxInit
    /\ \E envs \in Chains : \E env \in 1..Len(envs) :
          interpreter = [InterpreterInit EXCEPT !.envs = envs, !.environment = env]
    /\ statements = << >>
    /\ next = 1
    /\ lines = 0
    /\ run = RunInit
    /\ history = << >>
    /\ exit_code = -1

\* The call made, with the frames as they were before it.
Operation_on(kind, name, value) ==
    [kind |-> kind, env |-> interpreter.environment, name |-> name,
     value |-> value, envs |-> interpreter.envs]

\* self.environment.assign(name, value); the LoxRuntimeError it raises.
Assigned(name, value, assigned) ==
    /\ interpreter' = [interpreter EXCEPT !.envs = assigned.envs]
    /\ run' = [run EXCEPT !.op = Operation_on("assign", name, value),
                          !.outcome = IF assigned.ok THEN "done" ELSE "runtime_error",
                          !.message = IF assigned.ok THEN "" ELSE "Undefined variable."]

Environment_assign_call ==
    /\ pc = "idle"
    /\ \E name \in EnvNames :
          Assigned(name, Num(1),
                   Environment_assign(interpreter.envs, interpreter.environment,
                                      name, Num(1)))
    /\ pc' = "applied"
    /\ UNCHANGED << script, lox, statements, next, lines, history, exit_code >>

\* self.environment.define(name, value)
Environment_define_call ==
    /\ pc = "idle"
    /\ \E name \in EnvNames :
          /\ interpreter' =
                [interpreter EXCEPT
                    !.envs = Environment_define(@, interpreter.environment,
                                                name, Num(1))]
          /\ run' = [run EXCEPT !.op = Operation_on("define", name, Num(1)),
                                !.outcome = "done"]
    /\ pc' = "applied"
    /\ UNCHANGED << script, lox, statements, next, lines, history, exit_code >>

NextEnv ==
    \/ Environment_assign_call
    \/ Environment_define_call

SpecEnv == InitEnv /\ [][NextEnv]_vars

\* ---------------------------------------------------------------------
\* Properties
\* ---------------------------------------------------------------------

\* The runs of the session so far: the earlier inputs and the current one.
Runs == IF lines = 0 THEN << >> ELSE Append(history, run)

\* The front end or the resolver reported an error for the input of r.
ErrorReported(r) ==
    r.lexer_had_error \/ r.parser_had_error \/ r.resolver_errors > 0

\* Lox.run has returned for the current input.
Returned == pc \in {"idle", "file_done", "exited"} /\ lines > 0 /\ run.src # ""

C5_LaterLineEvaluated ==
    ( /\ mode = "repl"
      /\ Returned
      /\ run.clean
      /\ \E i \in 1 .. Len(history) :
            ErrorReported(history[i]) \/ history[i].rt_reports > 0 )
        => run.entered

\* C6 (as claimed): in file mode the exit code is 65 when a lex, parse or
\* resolve error was reported, 70 when evaluation ended with a runtime
\* error, and 0 otherwise.
C6_ExitCode ==
    pc = "exited" =>
        exit_code = IF ErrorReported(run) THEN 65
                    ELSE IF run.outcome = "runtime_error" THEN 70
                    ELSE 0

Returns == {i \in 1 .. Len(interpreter.calls) : interpreter.calls[i].exit = "return"}

\* The part of C8 that does not depend on the kind of function: a return
\* is caught by the call at whose depth it was executed (the nearest
\* enclosing call, no outer one), it is not reported as a runtime error,
\* and it does not set had_runtime_error.
ReturnIsNotAnError ==
    /\ \A i \in Returns :
          interpreter.calls[i].raised_at = interpreter.calls[i].caught_at
    /\ run.rt_reports > 0 => interpreter.raised > 0
    /\ lox.had_runtime_error =>
          \E i \in 1 .. Len(Runs) : Runs[i].rt_reports > 0

InitializerCalls(c) ==
    {i \in 1 .. Len(interpreter.calls) :
        /\ interpreter.calls[i].site = "class"
        /\ interpreter.calls[i].bound = c.instance}

Ended == pc \in {"exited", "crashed"}

\* C11 (as claimed): a write to a captured variable made in one call is
\* seen by the later calls of the same closure, and two closures made by
\* two calls of the enclosing function do not share the variable: the
\* counters c and d of makeCounter give 1 and 2 for c, and 1 for d.
C11_ClosuresKeepTheirVariable ==
    (script.src = "Counter" /\ Ended) =>
        /\ pc = "exited"
        /\ interpreter.printed = << Num(1), Num(2), Num(1) >>

\* What the script Order prints when every operand is evaluated left
\* before right: t(x) prints x and returns it, g is the second function
\* declared and i the first instance created.
OrderPrinted ==
    << Num(1), Num(2), Num(3),
       Bool(FALSE), Num(3), Num(3),
       Num(4), Num(5), Num(5),
       FunV(2), Num(6), Num(7),
       InstV(1), Num(8) >>

OperandValue(o) ==
    CASE o = "nil" -> Nil
      [] o = "true" -> Bool(TRUE)
      [] o = "false" -> Bool(FALSE)
      [] o = "0" -> Num(0)
      [] o = "1" -> Num(1)
      [] o = "\"\"" -> Str("")
      [] o = "\"a\"" -> Str("a")
      [] o = "f" -> FunV(2)
      [] o = "K" -> ClassV(1)
      [] o = "i" -> InstV(1)

\* Lox's falsy values: nil and false.
Falsy(v) == v = Nil \/ v = Bool(FALSE)

\* The left operand alone decides the logical operator.
ShortCircuits(case) ==
    \/ case.op = "AND" /\ Falsy(OperandValue(case.a))
    \/ case.op = "OR" /\ ~Falsy(OperandValue(case.a))

TypeOf(v) == v.t

\* The script is `print a op b;` for one of the given operators and has
\* run to its end.
BinaryEnded(ops) == script.src = "Binary" /\ Ended /\ script.case.op \in ops

\* The value the script has printed, and nothing else happened.
Prints(v) ==
    /\ pc = "exited"
    /\ exit_code = 0
    /\ interpreter.printed = << v >>

\* C14 (as claimed): two values of different types are unequal: `==` is
\* false and `!=` is true, a boolean against a number included; nil
\* equals nil, and nil against any other value is unequal.
C14_DifferentTypesAreUnequal ==
    BinaryEnded({"EQUAL_EQUAL", "BANG_EQUAL"}) =>
        LET a == OperandValue(script.case.a)
            b == OperandValue(script.case.b)
        IN  /\ TypeOf(a) # TypeOf(b) =>
                  Prints(Bool(script.case.op = "BANG_EQUAL"))
            /\ (a = Nil /\ b = Nil) =>
                  Prints(Bool(script.case.op = "EQUAL_EQUAL"))

RuntimeErrorReported(message) ==
    /\ pc = "exited"
    /\ exit_code = 70
    /\ lox.had_runtime_error
    /\ run.outcome = "runtime_error"
    /\ run.message = message

ClaimedArity(callee) ==
    CASE callee = "f0" -> 0
      [] callee = "f1" -> 1
      [] callee = "f2" -> 2
      [] callee = "C0" -> 0
      [] callee = "C1" -> 1
      [] callee = "D1" -> 1
      [] callee = "clock" -> 0

\* What the body of a callee prints.
BodyPrints(callee) ==
    CASE callee \in {"f0", "f1", "f2"} -> << Str(callee) >>
      [] callee \in {"C1", "D1"} -> << Str("C1") >>
      [] OTHER -> << >>

NumberOperators ==
    {"MINUS", "STAR", "SLASH", "GREATER", "GREATER_EQUAL", "LESS", "LESS_EQUAL"}

\* The run has ended with the report of a runtime error raised by the
\* printed expression: nothing was printed.
OperandsRefused(message) ==
    /\ RuntimeErrorReported(message)
    /\ interpreter.raised = 1
    /\ interpreter.printed = << >>

C19_DivisionByZeroIsNoError ==
    /\ (script.src = "Division" /\ Ended) =>
          /\ pc = "exited"
          /\ exit_code = 0
          /\ run.executed = 2
          /\ Len(interpreter.printed) = 2
          /\ interpreter.printed[2] = Num(2)
    /\ (BinaryEnded({"SLASH"}) /\ script.case.a \in {"0", "1"}
                               /\ script.case.b = "0") =>
          /\ pc = "exited"
          /\ exit_code = 0
          /\ Len(interpreter.printed) = 1

\* The place where discarding tokens from position i on stops: after the
\* first `;`, or at the first keyword that starts a statement, or at EOF.
RECURSIVE SyncPoint(_, _)
SyncPoint(tokens, i) ==
    IF tokens[i].type = "EOF" THEN i
    ELSE IF tokens[i].type = "SEMICOLON" THEN i + 1
    ELSE IF tokens[i].type \in {"CLASS", "FUN", "VAR", "FOR", "IF", "WHILE",
                                "PRINT", "RETURN"}
    THEN i
    ELSE SyncPoint(tokens, i + 1)

\* The parser has resynchronised as the claim says: the error flag is
\* set, and every resynchronisation stopped at the sync point of the
\* place the error was raised at.
ResynchronisedAtSyncPoints ==
    /\ run.parser.resyncs # << >> => run.parser.had_error
    /\ \A k \in 1..Len(run.parser.resyncs) :
          run.parser.resyncs[k].to =
              SyncPoint(run.parser.tokens, run.parser.resyncs[k].from)

\* The declarations from the first sync point on, parsed on their own.
AfterFirstSync ==
    parse([ParserInit(run.parser.tokens) EXCEPT
              !.position = run.parser.resyncs[1].to])

\* C20 (as claimed): after a parse error in a declaration the parser
\* sets its error flag, discards tokens up to the sync point, and parses
\* what follows normally: parse() returns a list, and when the script
\* begins with a broken declaration, that declaration is None in it and
\* the declarations after the sync point are in the list as they parse on
\* their own, a class declaration included.
C20_ParserResynchronises ==
    (script.src = "Tokens" /\ pc # "idle") =>
        /\ pc # "crashed"
        /\ ResynchronisedAtSyncPoints
        /\ (script.case.broken # << >> /\ run.parser.resyncs # << >>) =>
              /\ statements # << >>
              /\ statements[1] = None
              /\ AfterFirstSync.sig = "ok"
              /\ Tail(statements) = AfterFirstSync.val

\* C21 (as claimed): for every token stream that ends in EOF, parse()
\* terminates and returns a statement list: no exception leaves it,
\* every call of declaration has consumed at least one token, and the
\* parser has stopped at the EOF token without consuming it.
C21_ParseReturnsAList ==
    (script.src = "Tokens" /\ pc # "idle") =>
        /\ pc # "crashed"
        /\ run.outcome # "crash"
        /\ \A k \in 1..Len(run.parser.declarations) :
              run.parser.declarations[k].from < run.parser.declarations[k].to
        /\ run.parser.position = Len(run.parser.tokens)
        /\ peek(run.parser).type = "EOF"
        /\ Len(statements) <= Len(script.words)

\* The clauses of the for loop of a script of ForScripts, each parsed on
\* its own from the token it starts at (the loop's `(` is token 7).
ForParser(position) ==
    [ParserInit(Tokens(script.words)) EXCEPT !.position = position]

ForConditionAt == 8 + Len(script.case.initializer)

ForIncrementAt == ForConditionAt + Len(script.case.condition) + 1

ForBodyAt == ForIncrementAt + Len(script.case.increment) + 1

ForInitializer ==
    IF script.case.initializer[1] = "var" THEN var_declaration(ForParser(9)).val
    ELSE expr_stmt(ForParser(8)).val

ForCondition == expression(ForParser(ForConditionAt)).val

ForIncrement == expression(ForParser(ForIncrementAt)).val

ForBody == statement(ForParser(ForBodyAt)).val

\* The while loop the claim describes.
ClaimedWhile ==
    WhileStmt(IF script.case.condition = << >> THEN Literal(Bool(TRUE))
              ELSE ForCondition,
              IF script.case.increment = << >> THEN ForBody
              ELSE BlockStmt(<< ForBody, ExprStmt(ForIncrement) >>))

\* What the loop's body prints each time round: the i of the
\* initializer when it declares one, the global i otherwise.
ForPrintsInside ==
    IF script.case.initializer[1] = "var" THEN Num(0) ELSE Num(9)

C22_ScopeWitness ==
    /\ script.src = "For"
    /\ script.case.initializer = << "var", "i", "=", "0", ";" >>
    /\ script.case.condition = << "false" >>
    /\ interpreter.printed = << Num(9) >>
    /\ pc = "exited"

\* The lexemes of the tokens, one after the other.
RECURSIVE Lexemes(_, _)
Lexemes(tokens, i) ==
    IF i > Len(tokens) THEN "" ELSE tokens[i].lexeme \o Lexemes(tokens, i + 1)

\* The first place from i on that holds a newline, or the place after the
\* last character.
RECURSIVE EndOfLine(_, _)
EndOfLine(chars, i) ==
    IF i > Len(chars) \/ chars[i] = "\n" THEN i ELSE EndOfLine(chars, i + 1)

\* The source from character i on without its comments and without its
\* whitespace (the whitespace inside a string literal stays).
RECURSIVE Stripped(_, _, _)
Stripped(chars, i, in_string) ==
    IF i > Len(chars) THEN ""
    ELSE IF in_string THEN chars[i] \o Stripped(chars, i + 1, chars[i] # "\"")
    ELSE IF chars[i] = "\"" THEN chars[i] \o Stripped(chars, i + 1, TRUE)
    ELSE IF chars[i] \in {" ", "\r", "\t", "\n"} THEN Stripped(chars, i + 1, FALSE)
    ELSE IF chars[i] = "/" /\ i < Len(chars) /\ chars[i + 1] = "/"
    THEN Stripped(chars, EndOfLine(chars, i), FALSE)
    ELSE chars[i] \o Stripped(chars, i + 1, FALSE)

\* The lexer has come to the end of the source and reported no error.
Accepted ==
    /\ script.src = "Chars"
    /\ pc = "stopped"
    /\ ~run.lexer.had_error

\* C23 (as claimed): for every source the lexer accepts without error,
\* the lexemes of the tokens, concatenated in order, are the source
\* without its whitespace and its comments.
C23_LexemesReproduceTheSource ==
    Accepted => Lexemes(run.tokens, 1) = Stripped(script.chars, 1, FALSE)

\* The number of EOF tokens among the tokens.
EOFs(tokens) == Cardinality({ i \in 1..Len(tokens) : tokens[i].type = "EOF" })

\* C24 (as claimed): for every input the token sequence ends, holds
\* exactly one EOF token, and that token is the last one: no exception
\* ends the sequence, EOF is never followed by a token, and the sequence
\* that has ended has its EOF.
C24_OneEOFLast ==
    script.src = "Chars" =>
        /\ pc # "crashed"
        /\ EOFs(run.tokens) <= 1
        /\ EOFs(run.tokens) = 1 => run.tokens[Len(run.tokens)].type = "EOF"
        /\ pc = "stopped" => EOFs(run.tokens) = 1

\* The two declarations of a script of DeclareScripts declare one name in
\* one scope that is not the global one.
Redeclared ==
    /\ script.case.a = script.case.b
    /\ script.case.place \in {"block", "function", "parameters"}

C26_ReturnsReported ==
    (script.src = "Return" /\ pc \notin {"idle", "parsed"}) =>
        /\ pc # "crashed"
        /\ run.resolver_errors =
              IF \/ script.case.place \in {"top", "block"}
                 \/ script.case.place = "initializer" /\ script.case.value
              THEN 1 ELSE 0

\* The Super node of a script of SuperScripts.
SuperNode == script.statements[2].methods[1].body[1].expr.callee

ClassFrame == IF script.case.place = "global" THEN Globals ELSE 2

HasSuperclass == script.case.superclass = "A"

MethodsFrame == IF HasSuperclass THEN ClassFrame + 1 ELSE ClassFrame

\* The declaration of B has been executed or has raised.
ClassDone ==
    /\ script.src = "Class"
    /\ \/ run.executed >= 3
       \/ run.outcome \in {"runtime_error", "crash"}

BoundAt ==
    { d \in 0..Len(run.op.envs) - 1 :
        /\ Environment_ancestor(run.op.envs, run.op.env, d) # 0
        /\ \A e \in 0..d : Environment_ancestor(run.op.envs, run.op.env, e) # 0
        /\ run.op.name \in
              DOMAIN run.op.envs[Environment_ancestor(run.op.envs, run.op.env, d)].values }

\* The innermost of them.
Innermost ==
    Environment_ancestor(run.op.envs, run.op.env,
                         CHOOSE d \in BoundAt : \A e \in BoundAt : d <= e)

\* The frames are what they were before the call, but for the binding of
\* the name in `frame`, which is now the value.
OnlyChanged(frame) ==
    /\ Len(interpreter.envs) = Len(run.op.envs)
    /\ \A f \in 1..Len(run.op.envs) :
          /\ interpreter.envs[f].enclosing = run.op.envs[f].enclosing
          /\ DOMAIN interpreter.envs[f].values =
                DOMAIN run.op.envs[f].values
                    \cup IF f = frame THEN {run.op.name} ELSE {}
          /\ \A n \in DOMAIN interpreter.envs[f].values :
                interpreter.envs[f].values[n] =
                    IF f = frame /\ n = run.op.name THEN run.op.value
                    ELSE run.op.envs[f].values[n]

\* C30: Environment.assign changes the binding of the name in the
\* innermost frame of the parent chain that binds it and nothing else;
\* when no frame of the chain binds it, it raises "Undefined variable"
\* and changes nothing; Environment.define inserts or overwrites in the
\* frame it is called on and changes nothing else.
C30_AssignWritesInnermostBinding ==
    pc = "applied" =>
        /\ interpreter.environment = run.op.env
        /\ run.op.kind = "assign" =>
              IF BoundAt = {}
              THEN /\ interpreter.envs = run.op.envs
                   /\ run.outcome = "runtime_error"
                   /\ run.message = "Undefined variable."
              ELSE /\ OnlyChanged(Innermost)
                   /\ run.outcome = "done"
        /\ run.op.kind = "define" =>
              /\ OnlyChanged(run.op.env)
              /\ run.outcome = "done"

\* C30 witness: an assignment made two frames below the global frame has
\* changed the binding of the frame in between, which is the innermost
\* that binds the name, and not the binding of the global frame.
C30_Witness ==
    /\ pc = "applied"
    /\ run.op.kind = "assign"
    /\ run.op.env = 3
    /\ run.op.name = "a"
    /\ "a" \notin DOMAIN run.op.envs[3].values
    /\ "a" \in DOMAIN run.op.envs[2].values
    /\ "a" \in DOMAIN run.op.envs[1].values
    /\ interpreter.envs[2].values["a"] = Num(1)
    /\ interpreter.envs[1].values["a"] = Num(0)
    /\ run.op.envs[2].values["a"] = Num(0)

====
